---- MODULE Spec2Model ----
(***************************************************************************)
(* Model of the Data Core System processes:                                *)
(*   processes/chats/save_chat.py         (the save pipeline)              *)
(*   processes/chats/chat_health_check.py (the health check)               *)
(*   processes/git_commit.py              (chat-first, backup-first commit) *)
(* Texts are TLA+ strings and the Python string functions the code uses    *)
(* are operators over them.  Time is counted in whole minutes since        *)
(* 2025-01-01 00:00 UTC (seconds and microseconds are always zero).        *)
(***************************************************************************)
EXTENDS Integers, Sequences, FiniteSets, TLC

(***************************************************************************)
(* Python string functions                                                 *)
(***************************************************************************)

\* s[i] as a one-character string
CharAt(s, i) == SubSeq(s, i, i)

\* F(v): the value v under the name the expression F gives it
With(v, F(_)) == F(v)

\* F(v, w): the values v and w under the names the expression F gives them
With2(v, w, F(_, _)) == F(v, w)

\* min(S) and max(S) of a non-empty finite set of integers
Least(S) == CHOOSE i \in S : \A j \in S : i <= j
Greatest(S) == CHOOSE i \in S : \A j \in S : i >= j

\* sub in s
Contains(s, sub) ==
    \/ sub = ""
    \/ \E i \in 1..(Len(s) - Len(sub) + 1) :
          CharAt(s, i) = CharAt(sub, 1) /\ SubSeq(s, i, i + Len(sub) - 1) = sub

\* s.startswith(p)
StartsWith(s, p) == Len(s) >= Len(p) /\ SubSeq(s, 1, Len(p)) = p

\* s.endswith(p)
EndsWith(s, p) == Len(s) >= Len(p) /\ SubSeq(s, Len(s) - Len(p) + 1, Len(s)) = p

\* s.find(sub, start) with 1-based positions; 0 when absent
Find(s, sub, start) ==
    With({i \in start..(Len(s) - Len(sub) + 1) :
             CharAt(s, i) = CharAt(sub, 1) /\ SubSeq(s, i, i + Len(sub) - 1) = sub},
         LAMBDA hits : IF hits = {} THEN 0 ELSE Least(hits))

IsSpace(c) == c \in {" ", "\n", "\t", "\r"}

\* the first position from i on, and the last position up to i, that holds no
\* white space (Len(s) + 1 and 0 when there is none)
RECURSIVE FirstKept(_, _)
FirstKept(s, i) ==
    IF i > Len(s) \/ ~IsSpace(CharAt(s, i)) THEN i ELSE FirstKept(s, i + 1)

RECURSIVE LastKept(_, _)
LastKept(s, i) ==
    IF i < 1 \/ ~IsSpace(CharAt(s, i)) THEN i ELSE LastKept(s, i - 1)

\* s.strip()
Strip(s) ==
    With2(FirstKept(s, 1), LastKept(s, Len(s)),
          LAMBDA first, last : IF first > last THEN "" ELSE SubSeq(s, first, last))

\* the elements of a finite set of integers in ascending order
RECURSIVE SortedSeq(_)
SortedSeq(S) ==
    IF S = {} THEN <<>>
    ELSE With(Least(S), LAMBDA m : <<m>> \o SortedSeq(S \ {m}))

\* s.split(sep) for a non-empty separator that does not overlap itself
\* ("\n", "-", ".", ". ", ".md": every separator the code splits on)
Split(s, sep) ==
    With(SortedSeq({i \in 1..(Len(s) - Len(sep) + 1) :
                      CharAt(s, i) = CharAt(sep, 1) /\ SubSeq(s, i, i + Len(sep) - 1) = sep}),
         LAMBDA pos :
            [j \in 1..(Len(pos) + 1) |->
                SubSeq(s, IF j = 1 THEN 1 ELSE pos[j - 1] + Len(sep),
                          IF j = Len(pos) + 1 THEN Len(s) ELSE pos[j] - 1)])

\* s.split('\n')
SplitLines(s) == Split(s, "\n")

\* len(s.split()): the number of maximal runs of non-whitespace characters
WordCount(s) ==
    Cardinality({i \in 1..Len(s) :
        ~IsSpace(CharAt(s, i)) /\ (i = 1 \/ IsSpace(CharAt(s, i - 1)))})

\* s.split(): the whitespace-separated words of s
SplitWords(s) ==
    With2(SortedSeq({i \in 1..Len(s) :
                ~IsSpace(CharAt(s, i)) /\ (i = 1 \/ IsSpace(CharAt(s, i - 1)))}),
          SortedSeq({i \in 1..Len(s) :
                ~IsSpace(CharAt(s, i)) /\ (i = Len(s) \/ IsSpace(CharAt(s, i + 1)))}),
          LAMBDA starts, ends : [j \in 1..Len(starts) |-> SubSeq(s, starts[j], ends[j])])

\* sep.join(parts)
RECURSIVE Join(_, _)
Join(parts, sep) ==
    IF Len(parts) = 0 THEN ""
    ELSE IF Len(parts) = 1 THEN parts[1]
    ELSE parts[1] \o sep \o Join(Tail(parts), sep)

\* s.replace(old, new)
Replace(s, old, new) == Join(Split(s, old), new)

\* the lower-case letter of every upper-case ASCII letter
LowerOf ==
    [c \in {"A", "B", "C", "D", "E", "F", "G", "H", "I", "J", "K", "L", "M",
            "N", "O", "P", "Q", "R", "S", "T", "U", "V", "W", "X", "Y", "Z"} |->
        CASE c = "A" -> "a" [] c = "B" -> "b" [] c = "C" -> "c" [] c = "D" -> "d"
          [] c = "E" -> "e" [] c = "F" -> "f" [] c = "G" -> "g" [] c = "H" -> "h"
          [] c = "I" -> "i" [] c = "J" -> "j" [] c = "K" -> "k" [] c = "L" -> "l"
          [] c = "M" -> "m" [] c = "N" -> "n" [] c = "O" -> "o" [] c = "P" -> "p"
          [] c = "Q" -> "q" [] c = "R" -> "r" [] c = "S" -> "s" [] c = "T" -> "t"
          [] c = "U" -> "u" [] c = "V" -> "v" [] c = "W" -> "w" [] c = "X" -> "x"
          [] c = "Y" -> "y" [] c = "Z" -> "z"]

\* s.lower()
RECURSIVE Lower(_)
Lower(s) ==
    IF Len(s) = 0 THEN ""
    ELSE IF Len(s) = 1 THEN (IF s \in DOMAIN LowerOf THEN LowerOf[s] ELSE s)
    ELSE Lower(SubSeq(s, 1, Len(s) \div 2)) \o Lower(SubSeq(s, Len(s) \div 2 + 1, Len(s)))

Digits == "0123456789"

IsDigits(s) == Len(s) > 0 /\ \A i \in 1..Len(s) : Contains(Digits, CharAt(s, i))

\* int(s) for a string of decimal digits
RECURSIVE ParseInt(_)
ParseInt(s) ==
    IF Len(s) = 0 THEN 0
    ELSE 10 * ParseInt(SubSeq(s, 1, Len(s) - 1)) + (Find(Digits, CharAt(s, Len(s)), 1) - 1)

\* f"{n:02d}"
Pad2(n) == IF n < 10 THEN "0" \o ToString(n) ELSE ToString(n)

\* f"{n:04d}"
Pad4(n) ==
    IF n < 10 THEN "000" \o ToString(n)
    ELSE IF n < 100 THEN "00" \o ToString(n)
    ELSE IF n < 1000 THEN "0" \o ToString(n)
    ELSE ToString(n)

(***************************************************************************)
(* Time: minutes since 2025-01-01 00:00 UTC                                *)
(***************************************************************************)

\* an absent value (Python None) is the empty tuple, a present value v is <<v>>
None == <<>>
Some(v) == <<v>>

IsLeap(y) == (y % 4 = 0 /\ y % 100 # 0) \/ y % 400 = 0

DaysInMonth(y, m) ==
    IF m = 2 THEN (IF IsLeap(y) THEN 29 ELSE 28)
    ELSE IF m \in {4, 6, 9, 11} THEN 30 ELSE 31

\* days from 1970-01-01 to the civil date y-m-d (proleptic Gregorian calendar)
DaysFromCivil(y, m, d) ==
    LET yy == IF m <= 2 THEN y - 1 ELSE y
        era == yy \div 400
        yoe == yy - era * 400
        mp == IF m > 2 THEN m - 3 ELSE m + 9
        doy == (153 * mp + 2) \div 5 + d - 1
        doe == yoe * 365 + yoe \div 4 - yoe \div 100 + doy
    IN era * 146097 + doe - 719468

EpochDays == DaysFromCivil(2025, 1, 1)

\* datetime(y, m, d, h, mi, tzinfo=utc) as minutes since the epoch
MinutesOf(y, m, d, h, mi) == ((DaysFromCivil(y, m, d) - EpochDays) * 24 + h) * 60 + mi

\* The clock of the model stays inside January 2025.
DayOf(t) == t \div 1440 + 1
HourOf(t) == (t % 1440) \div 60
MinuteOf(t) == t % 60

\* timestamp.strftime('%Y-%m-%d-%H-%M')
FmtFile(t) == "2025-01-" \o Pad2(DayOf(t)) \o "-" \o Pad2(HourOf(t)) \o "-" \o Pad2(MinuteOf(t))
\* timestamp.strftime('%Y-%m-%d %H:%M')
FmtTitle(t) == "2025-01-" \o Pad2(DayOf(t)) \o " " \o Pad2(HourOf(t)) \o ":" \o Pad2(MinuteOf(t))
\* timestamp.strftime('%H:%M:%S')
FmtClock(t) == Pad2(HourOf(t)) \o ":" \o Pad2(MinuteOf(t)) \o ":00"
\* timestamp.strftime('%Y-%m-%d %H:%M:%S')
FmtLocal(t) == FmtTitle(t) \o ":00"
\* timestamp.isoformat() of an aware UTC datetime
IsoFormat(t) == "2025-01-" \o Pad2(DayOf(t)) \o "T" \o FmtClock(t) \o "+00:00"
\* gmt_time.strftime("%Y%m%d-%H%M")
FmtBranch(t) == "202501" \o Pad2(DayOf(t)) \o "-" \o Pad2(HourOf(t)) \o Pad2(MinuteOf(t))

\* str(uuid.uuid4()) for the n-th identifier drawn
generate_uuid(n) == "00000000-0000-4000-8000-00000000" \o Pad4(n)

\* create_temporal_filename
create_temporal_filename(timestamp) == "chat-" \o FmtFile(timestamp) \o ".md"

(***************************************************************************)
(* save_chat.py: value patterns                                            *)
(***************************************************************************)

\* the concatenation of a sequence of sequences
RECURSIVE Concat(_)
Concat(ss) == IF Len(ss) = 0 THEN <<>> ELSE Head(ss) \o Concat(Tail(ss))

Max(a, b) == IF a >= b THEN a ELSE b
Min(a, b) == IF a <= b THEN a ELSE b

\* get_basic_patterns: the structural entries are pairs, not triples
get_basic_patterns ==
    [explicit_signals |-> << <<"I think this is important", 95>>,
                             <<"It's vital that", 90>>,
                             <<"The core issue is", 88>>,
                             <<"I think", 75>>,
                             <<"Purpose", 80>> >>,
     structural_patterns |-> << <<"long_message", 200>>,
                                <<"very_long_message", 400>>,
                                <<"multi_paragraph", 2>> >>,
     content_types |-> <<"design", "philosophy", "requirements", "technical">>]

\* parse_patterns_from_content.  The reference file reference/value_patterns.md
\* is given by what the regular expressions find in it:
\*   explicit   - None when "## Explicit Importance Indicators" is absent,
\*                else the (signal, confidence) entries of the section
\*   structural - None when "## Structural Patterns" is absent, else the
\*                (threshold, confidence) entries "Messages >N words"
parse_patterns_from_content(file) ==
    [explicit_signals |-> IF file.explicit = None THEN <<>> ELSE file.explicit[1],
     structural_patterns |->
        IF file.structural = None THEN <<>>
        ELSE IF Len(file.structural[1]) = 0
             THEN << <<"word_threshold", 50, 75>>,
                     <<"word_threshold", 100, 80>>,
                     <<"word_threshold", 200, 85>> >>
             ELSE [k \in 1..Len(file.structural[1]) |->
                     <<"word_threshold", file.structural[1][k][1], file.structural[1][k][2]>>],
     content_types |-> <<>>]

\* load_value_patterns: patterns_file is None when the file does not exist
load_value_patterns(patterns_file) ==
    IF patterns_file # None THEN parse_patterns_from_content(patterns_file[1])
    ELSE get_basic_patterns

(***************************************************************************)
(* save_chat.py: turn parser                                               *)
(***************************************************************************)

Message(speaker, parts) ==
    With(Join(parts, "\n"),
         LAMBDA text : [speaker |-> speaker, content |-> text, length |-> Len(text)])

\* the loop of parse_structured_conversation; current_speaker "none" is None
RECURSIVE psc_loop(_, _, _, _, _)
psc_loop(lines, i, current_speaker, current_message, messages) ==
    With(IF current_speaker # "none" /\ Len(current_message) > 0
         THEN Append(messages, Message(current_speaker, current_message))
         ELSE messages,
         LAMBDA flushed :
            IF i > Len(lines) THEN flushed
            ELSE With(Strip(lines[i]), LAMBDA line :
               IF line = "" THEN psc_loop(lines, i + 1, current_speaker, current_message, messages)
               ELSE IF StartsWith(line, "User:") \/ StartsWith(line, "user:")
                    THEN psc_loop(lines, i + 1, "user",
                                  <<Strip(SubSeq(line, 6, Len(line)))>>, flushed)
               ELSE IF StartsWith(line, "Assistant:") \/ StartsWith(line, "assistant:")
                    THEN psc_loop(lines, i + 1, "ai",
                                  <<Strip(SubSeq(line, 11, Len(line)))>>, flushed)
               ELSE psc_loop(lines, i + 1, current_speaker,
                             Append(current_message, line), messages)))

parse_structured_conversation(content) ==
    psc_loop(SplitLines(content), 1, "none", <<>>, <<>>)

CountIn(indicators, text) == Cardinality({k \in 1..Len(indicators) : Contains(text, indicators[k])})

\* parse_conversation_speakers
parse_conversation_speakers(content) ==
    With2(parse_structured_conversation(content), Lower(content),
          LAMBDA structured_messages, content_lower :
             IF Len(structured_messages) > 0 THEN structured_messages
             ELSE << [content |-> content,
                      speaker |->
                         IF CountIn(<<"let me", "i'll help", "here's", "i can see", "excellent!",
                                      "perfect!", "this message should", "should trigger",
                                      "should identify">>, content_lower)
                            > CountIn(<<"i want", "i need", "can you", "how do i", "why does",
                                        "i think">>, content_lower)
                         THEN "ai" ELSE "user",
                      length |-> Len(content)] >>)

\* determine_speaker_for_content
determine_speaker_for_content(section_content, messages) ==
    With2({k \in 1..Len(messages) :
              \/ Contains(messages[k].content, Strip(section_content))
              \/ Contains(section_content, messages[k].content)},
          Lower(section_content),
          LAMBDA hits, section_lower :
             IF hits # {} THEN messages[Least(hits)].speaker
             ELSE IF \E ind \in {"i want", "i need", "i think", "my approach", "i prefer"} :
                         Contains(section_lower, ind) THEN "user"
             ELSE IF \E ind \in {"i'll", "let me", "here's", "i can help"} :
                         Contains(section_lower, ind) THEN "ai"
             ELSE "user")

(***************************************************************************)
(* save_chat.py: value scorer                                              *)
(***************************************************************************)

\* lines 298-303: the confidence of an explicit-signal span, by its speaker
explicit_adjusted_confidence(speaker, confidence) ==
    IF speaker = "user" THEN Min(100, confidence + 10)
    ELSE IF speaker = "ai" THEN Max(60, confidence - 15)
    ELSE confidence

\* the adjustment of the explicit signals applied to a long message
structural_adjusted_confidence_as_explicit(speaker, base_confidence) ==
    explicit_adjusted_confidence(speaker, base_confidence)

\* lines 325-329: the confidence of a structural-length span, by its speaker
structural_adjusted_confidence(speaker, base_confidence) ==
    IF speaker = "user" THEN Min(100, base_confidence + 15)
    ELSE Max(60, base_confidence - 10)

\* the explicit-signal span of one (line, signal) pair made of the line alone
explicit_span_without_context(lines, i, pattern, messages) ==
    With2(pattern[2], determine_speaker_for_content(lines[i], messages),
          LAMBDA confidence, speaker :
             IF Contains(Lower(lines[i]), Lower(pattern[1])) /\ confidence >= 80
             THEN << [type |-> "explicit_signal",
                      signal |-> pattern[1],
                      confidence |-> explicit_adjusted_confidence(speaker, confidence),
                      original_confidence |-> confidence,
                      speaker |-> speaker,
                      content |-> lines[i],
                      line_range |-> ToString(i) \o "-" \o ToString(i)] >>
             ELSE <<>>)

\* lines 286-313: the explicit-signal spans of one (line, signal) pair
explicit_span(lines, i, pattern, messages) ==
    With2(Max(0, (i - 1) - 1), Min(Len(lines), (i - 1) + 3), LAMBDA start_idx, end_idx :
      With(Join(SubSeq(lines, start_idx + 1, end_idx), "\n"), LAMBDA section_content :
        With2(pattern[2], determine_speaker_for_content(section_content, messages),
              LAMBDA confidence, speaker :
                 IF Contains(Lower(lines[i]), Lower(pattern[1])) /\ confidence >= 80
                 THEN << [type |-> "explicit_signal",
                          signal |-> pattern[1],
                          confidence |-> explicit_adjusted_confidence(speaker, confidence),
                          original_confidence |-> confidence,
                          speaker |-> speaker,
                          content |-> section_content,
                          line_range |-> ToString(start_idx + 1) \o "-" \o ToString(end_idx)] >>
                 ELSE <<>>)))

\* lines 320-338: the loop over the structural patterns for one message;
\* unpacking an entry that is not a triple raises ValueError
RECURSIVE structural_span(_, _, _)
structural_span(message, pats, k) ==
    IF k > Len(pats) THEN [err |-> FALSE, sections |-> <<>>]
    ELSE IF Len(pats[k]) # 3 THEN [err |-> TRUE, sections |-> <<>>]
    ELSE With2(WordCount(message.content), pats[k], LAMBDA word_count, pattern :
            \* pattern is (pattern_type, threshold, base_confidence)
            IF pattern[1] = "word_threshold" /\ word_count > pattern[2]
            THEN [err |-> FALSE,
                  sections |-> << [type |-> "long_message",
                                   signal |-> "Detailed message (" \o ToString(word_count)
                                              \o " words, >" \o ToString(pattern[2]) \o " threshold)",
                                   confidence |->
                                      structural_adjusted_confidence(message.speaker, pattern[3]),
                                   original_confidence |-> pattern[3],
                                   speaker |-> message.speaker,
                                   content |-> message.content,
                                   word_count |-> word_count,
                                   threshold |-> pattern[2]] >>]
            ELSE structural_span(message, pats, k + 1))

\* detect_high_value_content: [err |-> TRUE] when the function raises
detect_high_value_content(content, patterns) ==
    With2(parse_conversation_speakers(content), SplitLines(content), LAMBDA messages, lines :
      With([m \in 1..Len(messages) |->
               structural_span(messages[m], patterns.structural_patterns, 1)],
           LAMBDA structural :
              IF \E m \in 1..Len(messages) : structural[m].err
              THEN [err |-> TRUE, messages |-> messages, sections |-> <<>>]
              ELSE [err |-> FALSE,
                    messages |-> messages,
                    sections |->
                       Concat([i \in 1..Len(lines) |->
                          Concat([k \in 1..Len(patterns.explicit_signals) |->
                             explicit_span(lines, i, patterns.explicit_signals[k], messages)])])
                       \o Concat([m \in 1..Len(messages) |-> structural[m].sections])]))

RECURSIVE SumLen(_)
SumLen(sections) ==
    IF Len(sections) = 0 THEN 0 ELSE Len(Head(sections).content) + SumLen(Tail(sections))

\* sorted(..., key=-confidence) on one speaker's sections: stable, descending
RECURSIVE SortByConfidence(_)
SortByConfidence(sections) ==
    IF Len(sections) <= 1 THEN sections
    ELSE With2(SortByConfidence(SubSeq(sections, 1, Len(sections) - 1)), sections[Len(sections)],
               LAMBDA rest, x :
                  With(Cardinality({k \in 1..Len(rest) : rest[k].confidence >= x.confidence}),
                       LAMBDA n : SubSeq(rest, 1, n) \o <<x>> \o SubSeq(rest, n + 1, Len(rest))))

\* every section kept as an entry of its own
deduplicate_sections_keeps_all(high_value_sections) ==
    [k \in 1..Len(high_value_sections) |->
        [type |-> high_value_sections[k].type,
         signal |-> high_value_sections[k].signal,
         confidence |-> high_value_sections[k].confidence,
         original_confidence |-> high_value_sections[k].original_confidence,
         speaker |-> high_value_sections[k].speaker,
         content |-> high_value_sections[k].content,
         pattern_count |-> 1]]

\* lines 350-373: group by identical content, in order of first occurrence
deduplicate_sections(high_value_sections) ==
    With(SortedSeq({i \in 1..Len(high_value_sections) :
             \A j \in 1..(i - 1) :
                high_value_sections[j].content # high_value_sections[i].content}),
         LAMBDA firsts :
            [f \in 1..Len(firsts) |->
               With(SelectSeq(high_value_sections,
                       LAMBDA x : x.content = high_value_sections[firsts[f]].content),
                    LAMBDA group :
                       \* the first section of the group with the greatest confidence
                       With(group[CHOOSE k \in 1..Len(group) :
                               /\ \A j \in 1..Len(group) : group[j].confidence <= group[k].confidence
                               /\ \A j \in 1..(k - 1) : group[j].confidence < group[k].confidence],
                            LAMBDA best :
                               [type |-> best.type,
                                signal |-> Join([k \in 1..Len(group) |-> group[k].signal], " + "),
                                confidence |-> best.confidence,
                                original_confidence |-> best.original_confidence,
                                speaker |-> best.speaker,
                                content |-> best.content,
                                pattern_count |-> Len(group)]))])

\* lines 386-396 and 401-409: one rendered entry ("@" and "&" stand for the
\* two one-character emoji of the headings, "'" for the backquote of the fences)
render_entry(i, section, isUser) ==
    "**" \o ToString(i) \o ". " \o section.signal \o " (Confidence: "
    \o ToString(section.confidence) \o "%"
    \o (IF section.confidence = section.original_confidence THEN ""
        ELSE IF isUser
             THEN " (+" \o ToString(section.confidence - section.original_confidence)
                  \o "% user boost)"
        ELSE " (" \o ToString(section.original_confidence - section.confidence)
             \o "% AI reduction)")
    \o ")"
    \o (IF isUser /\ section.pattern_count > 1
        THEN " [" \o ToString(section.pattern_count) \o " patterns]" ELSE "")
    \o "**\n" \o "'''\n" \o section.content \o "\n'''\n\n"

\* create_value_preserved_section
create_value_preserved_section(high_value_sections, conversation_content) ==
    IF Len(high_value_sections) = 0
    THEN "No high-value content patterns detected in this conversation for verbatim preservation."
    ELSE With(deduplicate_sections(high_value_sections), LAMBDA dedup :
      With2(SortByConfidence(SelectSeq(dedup, LAMBDA x : x.speaker = "user")),
            SortByConfidence(SelectSeq(dedup, LAMBDA x : x.speaker = "ai")),
            LAMBDA user_sections, ai_sections :
        With2(SumLen(user_sections), SumLen(ai_sections), LAMBDA user_chars, ai_chars :
            "### High-Value Content Identified\n\n"
            \o (IF Len(user_sections) > 0
                THEN "#### @ **User Content** (Primary Value)\n\n"
                     \o Join([i \in 1..Len(user_sections) |->
                                 render_entry(i, user_sections[i], TRUE)], "")
                ELSE "")
            \o (IF Len(ai_sections) > 0
                THEN "#### & **AI Content** (Supporting Value)\n\n"
                     \o Join([i \in 1..Len(ai_sections) |->
                                 render_entry(i, ai_sections[i], FALSE)], "")
                ELSE "")
            \o "### Speaker-Aware Pattern Recognition Summary\n"
            \o "- **Total sections identified:** "
               \o ToString(Len(user_sections) + Len(ai_sections)) \o " ("
               \o ToString(Len(user_sections)) \o " user, " \o ToString(Len(ai_sections)) \o " AI)\n"
            \o "- **User content preserved:** " \o ToString(user_chars) \o " characters ("
               \o ToString(Len(user_sections)) \o " sections)\n"
            \o "- **AI content preserved:** " \o ToString(ai_chars) \o " characters ("
               \o ToString(Len(ai_sections)) \o " sections)\n"
            \o "- **Conversation length:** " \o ToString(Len(conversation_content))
               \o " characters\n"
            \o "- **Value extraction ratio:** " \o ToString(user_chars + ai_chars) \o "/"
               \o ToString(Len(conversation_content)) \o " characters preserved\n"
            \o "- **User priority ratio:** " \o ToString(user_chars) \o "/"
               \o ToString(user_chars + ai_chars) \o " characters from user content\n\n")))

(***************************************************************************)
(* save_chat.py: content analysis (the sections of a record)               *)
(***************************************************************************)

\* any(word in text for word in words)
AnyIn(words, text) == \E k \in 1..Len(words) : Contains(text, words[k])

StripAll(lines) == [k \in 1..Len(lines) |-> Strip(lines[k])]

\* validate_conversation_content whose checks are skipped for an empty content
validate_conversation_content_skips_empty(content) ==
    content # "" => (Len(Strip(content)) >= 100 /\ WordCount(content) >= 20)

\* validate_conversation_content
validate_conversation_content(content) ==
    /\ content # ""
    /\ Len(Strip(content)) >= 100
    /\ WordCount(content) >= 20

\* extract_enhanced_summary
extract_enhanced_summary(content, high_value_sections) ==
    With(Concat([k \in 1..Len(high_value_sections) |->
            SelectSeq(StripAll(SplitLines(high_value_sections[k].content)),
                      LAMBDA line : Len(line) > 20
                          /\ AnyIn(<<"implement", "create", "design", "build", "fix", "test",
                                     "important", "vital">>, Lower(line)))]),
         LAMBDA fromSections :
      With(IF Len(fromSections) > 0 THEN fromSections
           ELSE SelectSeq(StripAll(SplitLines(content)),
                          LAMBDA line : Len(line) > 20
                              /\ AnyIn(<<"implement", "create", "design", "build", "fix", "test">>,
                                       Lower(line))),
           LAMBDA key_topics :
              IF Len(key_topics) > 0
              THEN "Value-enhanced conversation covering: " \o Join(key_topics, "; ")
                   \o ". Total content: " \o ToString(Len(content)) \o " characters with "
                   \o ToString(Len(high_value_sections)) \o " high-value sections identified."
              ELSE "Comprehensive discussion captured with enhanced value detection ("
                   \o ToString(Len(content)) \o " characters, "
                   \o ToString(Len(high_value_sections)) \o " valuable sections preserved)."))

\* lines 621-633 and 655-667: for one section, the first sentence holding the
\* first pattern the section contains, when it is longer than minLen
first_sentence(section_content, patterns, minLen) ==
    With2({k \in 1..Len(patterns) : Contains(Lower(section_content), patterns[k])},
          Split(section_content, "."),
          LAMBDA found, sentences :
             IF found = {} THEN <<>>
             ELSE With({k \in 1..Len(sentences) :
                          /\ Contains(Lower(sentences[k]), patterns[Least(found)])
                          /\ Len(Strip(sentences[k])) > minLen},
                       LAMBDA good : IF good = {} THEN <<>>
                                     ELSE <<Strip(sentences[Least(good)])>>))

\* lines 636-643, 670-677, 743-749: the stripped lines holding one of the patterns
matching_lines(content, patterns, minLen) ==
    StripAll(SelectSeq(SplitLines(content),
                       LAMBDA line : AnyIn(patterns, Lower(line)) /\ Len(Strip(line)) > minLen))

\* extract_enhanced_insights
extract_enhanced_insights(content, high_value_sections) ==
    With(Concat([k \in 1..Len(high_value_sections) |->
            first_sentence(high_value_sections[k].content,
                <<"discovered", "realized", "found", "identified", "learned", "understood",
                  "critical", "important", "vital">>, 20)]),
         LAMBDA fromSections :
      With(IF Len(fromSections) > 0 THEN fromSections
           ELSE matching_lines(content,
                   <<"discovered", "realized", "found", "identified", "learned",
                     "understood", "critical", "important">>, 20),
           LAMBDA insights :
              IF Len(insights) > 0 THEN Join(insights, ". ") \o "."
              ELSE "Key insights extracted from conversation content regarding system development, implementation strategies, and technical decisions."))

\* extract_enhanced_decisions
extract_enhanced_decisions(content, high_value_sections) ==
    With(Concat([k \in 1..Len(high_value_sections) |->
            first_sentence(high_value_sections[k].content,
                <<"decided", "agreed", "chose", "will implement", "must", "should",
                  "need to", "going to">>, 15)]),
         LAMBDA fromSections :
      With(IF Len(fromSections) > 0 THEN fromSections
           ELSE matching_lines(content,
                   <<"decided", "agreed", "chose", "will", "must", "should",
                     "need to", "going to">>, 15),
           LAMBDA decisions :
              IF Len(decisions) > 0 THEN Join(decisions, ". ") \o "."
              ELSE "Decisions made regarding system architecture, implementation approach, and development priorities based on conversation analysis."))

\* extract_questions
extract_questions(content) ==
    IF Contains(content, "?")
    THEN "Multiple questions addressed regarding system design, implementation details, and technical requirements based on conversation flow."
    ELSE "Discussion addressed various technical and strategic questions through detailed analysis and problem-solving approaches."

\* extract_actions
extract_actions(content) ==
    With(matching_lines(content,
            <<"implement", "create", "build", "fix", "test", "design", "develop",
              "add", "update">>, 15),
         LAMBDA actions :
            IF Len(actions) > 0 THEN Join(actions, ". ") \o "."
            ELSE "Action items identified from conversation include system development tasks, implementation requirements, and validation procedures.")

\* extract_context
extract_context(content) ==
    "Data Core System conversation capture session with enhanced value detection. Discussion focused on system development and implementation. Content represents "
    \o ToString(Len(content)) \o " characters of live conversation auto-extracted for Framework v2.0 compliance."

\* extract_reflections
extract_reflections ==
    "This conversation represents continued development and refinement of the Data Core System, demonstrating the evolution of AI-first design principles, enhanced value detection capabilities, and comprehensive data preservation strategies."

\* extract_system_state
extract_system_state ==
    "Data Core System operational with Framework v2.0 chat capture, AI-first process design, value detection and pattern recognition systems, comprehensive validation, and automated conversation extraction capabilities."

\* extract_implementation
extract_implementation ==
    "AI-first chat capture process with automatic conversation extraction, Framework v2.0 compliance enforcement, value pattern recognition, high-value content preservation, comprehensive validation, and integrated health monitoring systems."

\* extract_status
extract_status ==
    "Chat capture system fully operational with AI-first design, automatic content extraction, Framework v2.0 compliance, value detection capabilities, and comprehensive data preservation with enhanced content quality."

\* extract_additional_notes
extract_additional_notes ==
    "This record demonstrates successful AI-first conversation capture with enhanced value detection and automatic content extraction. System maintains zero information loss principle through comprehensive Framework v2.0 implementation with value pattern recognition."

\* len(open(__file__).readlines()) of save_chat.py
ScriptLines == 1205

required_sections ==
    <<"Summary", "Key Insights", "Decisions Made", "Questions Answered",
      "Action Items", "Context", "Personal Reflections", "System State",
      "Implementation Details", "Current Status", "Additional Notes",
      "Value-Preserved Content", "Technical Specifications">>

\* analyze_conversation_content, at time current_time; the dict is a function
\* from the section names
analyze_conversation_content(content, high_value_sections, value_preserved_content, current_time) ==
    ("Summary" :> extract_enhanced_summary(content, high_value_sections))
    @@ ("Key Insights" :> extract_enhanced_insights(content, high_value_sections))
    @@ ("Decisions Made" :> extract_enhanced_decisions(content, high_value_sections))
    @@ ("Questions Answered" :> extract_questions(content))
    @@ ("Action Items" :> extract_actions(content))
    @@ ("Context" :> extract_context(content))
    @@ ("Personal Reflections" :> extract_reflections)
    @@ ("System State" :> extract_system_state)
    @@ ("Implementation Details" :> extract_implementation)
    @@ ("Current Status" :> extract_status)
    @@ ("Additional Notes" :> extract_additional_notes)
    @@ ("Value-Preserved Content" :> value_preserved_content)
    @@ ("Technical Specifications" :>
           ("Framework v2.0 chat capture system with value detection and pattern recognition. Timestamp: "
            \o IsoFormat(current_time) \o ". Local time: " \o FmtLocal(current_time)
            \o " (GMT: " \o FmtClock(current_time) \o "). Script: save_chat.py ("
            \o ToString(ScriptLines)
            \o " lines). AI-first design with autonomous value extraction. Content source: Live conversation auto-extracted ("
            \o ToString(Len(content)) \o " characters). Value sections identified: "
            \o ToString(Len(high_value_sections))
            \o ". Validation: Framework v2.0 compliance and enhanced content quality verified."))

placeholders ==
    <<"[Brief overview", "[New understanding", "[What was decided",
      "[Problems solved", "[What needs to be done", "[Important background",
      "[Your thoughts", "[Current folder", "[Specific technical",
      "[What's complete", "[Any other information">>

\* lines 793-813: the issue of one section, or none
section_issue(content, section) ==
    IF section \notin DOMAIN content THEN <<"Missing required section: " \o section>>
    ELSE With2(Strip(content[section]),
               IF section = "Value-Preserved Content" THEN 30 ELSE 50,
               LAMBDA section_content, min_length :
                  IF Len(section_content) < min_length
                  THEN <<"Section '" \o section \o "' too short ("
                         \o ToString(Len(section_content)) \o " chars) - minimum "
                         \o ToString(min_length) \o " characters required">>
                  ELSE IF AnyIn(placeholders, section_content)
                       THEN <<"Section '" \o section \o "' contains placeholder text">>
                  ELSE <<>>)

\* validate_framework_compliance that finds no issue in any content
validate_framework_compliance_accepts_all(content) == <<>>

\* validate_framework_compliance: the list of issues (valid when empty)
validate_framework_compliance(content) ==
    Concat([k \in 1..Len(required_sections) |-> section_issue(content, required_sections[k])])
    \o (IF "Technical Specifications" \in DOMAIN content
           /\ ~Contains(content["Technical Specifications"], "Framework v2.0")
        THEN <<"Technical Specifications missing Framework v2.0 reference">> ELSE <<>>)

\* create_chat_report_content
create_chat_report_content(analysis, report_id, timestamp) ==
    "---\ntype: chat\nframework: framework\nid: " \o report_id
    \o "\ntimestamp: " \o IsoFormat(timestamp)
    \o "\nframework_version: 2.0\n---\n\n# Chat Session Report - " \o FmtTitle(timestamp) \o "\n"
    \o Join([k \in 1..Len(required_sections) |->
                "\n## " \o required_sections[k] \o "\n" \o analysis[required_sections[k]] \o "\n"], "")

(***************************************************************************)
(* File names and the records directory                                    *)
(***************************************************************************)

\* the characters of file names in ASCII order
AsciiOrder == " -.0123456789ABCDEFGHIJKLMNOPQRSTUVWXYZ_abcdefghijklmnopqrstuvwxyz"

\* a < b for Python strings
RECURSIVE StrLess(_, _)
StrLess(a, b) ==
    IF Len(b) = 0 THEN FALSE
    ELSE IF Len(a) = 0 THEN TRUE
    ELSE IF CharAt(a, 1) = CharAt(b, 1) THEN StrLess(Tail(a), Tail(b))
    ELSE Find(AsciiOrder, CharAt(a, 1), 1) < Find(AsciiOrder, CharAt(b, 1), 1)

\* names.sort(reverse=True): a set of distinct names, greatest first
RECURSIVE SortNamesDesc(_)
SortNamesDesc(names) ==
    IF names = {} THEN <<>>
    ELSE With(CHOOSE x \in names : \A y \in names : y = x \/ StrLess(y, x),
              LAMBDA m : <<m>> \o SortNamesDesc(names \ {m}))

\* [f for f in os.listdir(chats_dir) if f.startswith("chat-") and f.endswith(".md")],
\* sorted newest first
chat_files_of(files) ==
    SortNamesDesc({f \in DOMAIN files : StartsWith(f, "chat-") /\ EndsWith(f, ".md")})

\* check_for_gaps_with_previous_reports.  dir is the state of the path "chats":
\* "dir", "missing", "file" (the path exists and is not a directory) or
\* "denied" (a directory that cannot be listed); os.listdir raises for the last
\* two.  latest is the content read from the most recent report.
check_for_gaps_with_previous_reports(dir, files) ==
    IF dir = "missing"
    THEN [raised |-> FALSE, ok |-> TRUE, details |-> "First chat report in system", latest |-> None]
    ELSE IF dir \in {"file", "denied"}
    THEN [raised |-> TRUE, ok |-> FALSE, details |-> "", latest |-> None]
    ELSE With(chat_files_of(files), LAMBDA chat_files :
       IF Len(chat_files) = 0
       THEN [raised |-> FALSE, ok |-> TRUE, details |-> "First chat report in system",
             latest |-> None]
       \* latest_report is chat_files[0], latest_content what reading it gives
       ELSE IF Contains(files[chat_files[1]], "timestamp:")
       THEN [raised |-> FALSE, ok |-> TRUE, details |-> "Continues from " \o chat_files[1],
             latest |-> Some(files[chat_files[1]])]
       ELSE [raised |-> FALSE, ok |-> TRUE,
             details |-> "Continues from " \o chat_files[1] \o " (timestamp unclear)",
             latest |-> Some(files[chat_files[1]])])

\* verify_file_integrity without the comparison with the expected content
verify_file_integrity_size_only(saved, expected_content) ==
    IF saved = None THEN FALSE
    ELSE IF Len(saved[1]) < 1000 THEN FALSE
    ELSE TRUE

\* verify_file_integrity: saved is what reading the file back gave, None when
\* the read raised
verify_file_integrity(saved, expected_content) ==
    IF saved = None THEN FALSE
    ELSE IF Len(saved[1]) < 1000 THEN FALSE
    ELSE IF saved[1] # expected_content THEN FALSE
    ELSE TRUE

\* auto_extract_conversation_context of save_chat.py: argv is sys.argv[1:],
\* env the value of CHAT_CONTEXT (None when unset), stdin the piped text (None
\* when stdin is a terminal).  None when it raises ValueError.
auto_extract_conversation_context(argv, env, stdin) ==
    IF Len(argv) > 0 THEN Some(argv[1])
    ELSE IF env # None /\ env[1] # "" THEN Some(env[1])
    ELSE IF stdin # None /\ Strip(stdin[1]) # "" THEN Some(Strip(stdin[1]))
    ELSE None

(***************************************************************************)
(* chat_health_check.py                                                    *)
(***************************************************************************)

\* auto_extract_context_if_available: None when no source gives a context
auto_extract_context_if_available(argv, env, stdin) ==
    IF Len(argv) > 0 THEN Some(argv[1])
    ELSE IF env # None /\ env[1] # "" THEN Some(env[1])
    ELSE IF stdin # None /\ Strip(stdin[1]) # "" THEN Some(Strip(stdin[1]))
    ELSE None

\* validate_chats_directory; "denied" is a directory that cannot be listed
validate_chats_directory(dir) == dir = "dir"

\* parse_temporal_filename: the timestamp as minutes since the epoch, None
\* when the name does not parse or the fields are no valid date and time
parse_temporal_filename(filename) ==
    With(Split(Replace(filename, ".md", ""), "-"), LAMBDA parts :
       IF Len(parts) >= 5 /\ parts[1] = "chat"
       THEN IF Len(parts) >= 6 /\ \A k \in 2..6 : IsDigits(parts[k])
            THEN With([k \in 2..6 |-> ParseInt(parts[k])], LAMBDA field :
                    \* field[2..6] are year, month, day, hour, minute
                    IF /\ field[2] \in 1..9999
                       /\ field[3] \in 1..12
                       /\ field[4] \in 1..DaysInMonth(field[2], field[3])
                       /\ field[5] \in 0..23
                       /\ field[6] \in 0..59
                    THEN Some(MinutesOf(field[2], field[3], field[4], field[5], field[6]))
                    ELSE None)
            ELSE None
       ELSE None)

\* content[start:end].strip() with whitespace normalised, for the text that
\* follows the first occurrence of heading (lines 195-203 and 209-215)
section_after(content, heading) ==
    With(Find(content, heading, 1) + Len(heading), LAMBDA start :
      With(Find(content, "##", start), LAMBDA found :
         Join(SplitWords(SubSeq(content, start,
                 IF found = 0 THEN Min(Len(content), start + 299) ELSE found - 1)), " ")))

\* lines 221-237: the lines after the main title, up to 200 characters
RECURSIVE fallback_lines(_, _, _, _)
fallback_lines(lines, i, content_started, extracted_lines) ==
    IF i > Len(lines) THEN extracted_lines
    ELSE With(Strip(lines[i]), LAMBDA line :
            IF StartsWith(line, "#") /\ ~StartsWith(line, "##")
            THEN fallback_lines(lines, i + 1, TRUE, extracted_lines)
            ELSE IF content_started /\ line # "" /\ ~StartsWith(line, "#")
                 THEN IF Len(Join(Append(extracted_lines, line), " ")) > 200
                      THEN Append(extracted_lines, line)
                      ELSE fallback_lines(lines, i + 1, content_started, Append(extracted_lines, line))
            ELSE fallback_lines(lines, i + 1, content_started, extracted_lines))

\* extract_summary_from_content
extract_summary_from_content(content) ==
    With2(section_after(content, "## Summary"), section_after(content, "## Key Insights"),
          LAMBDA summary, insights :
       IF Contains(content, "## Summary") /\ Len(summary) > 20 THEN summary
       ELSE IF Contains(content, "## Key Insights") /\ Len(insights) > 20
            THEN "Key Insights: " \o insights
       ELSE With(fallback_lines(SplitLines(content), 1, FALSE, <<>>), LAMBDA extracted_lines :
               IF Len(extracted_lines) > 0 THEN "Content: " \o Join(extracted_lines, " ")
               ELSE "No meaningful summary content found"))

health_required_sections ==
    <<"## Summary", "## Key Insights", "## Decisions Made", "## Questions Answered",
      "## Action Items", "## Context", "## Personal Reflections", "## System State",
      "## Implementation Details", "## Current Status", "## Additional Notes",
      "## Technical Specifications">>

\* analyze_chat_file, for a file that can be read
analyze_chat_file(content, filename) ==
    With2(parse_temporal_filename(filename),
          Cardinality({k \in 1..Len(health_required_sections) :
                          Contains(content, health_required_sections[k])}),
          LAMBDA timestamp, sections_found :
      With((IF timestamp = None THEN <<"Invalid timestamp format in filename">> ELSE <<>>)
           \o (IF Len(content) < 1000
               THEN <<"File too small (" \o ToString(Len(content))
                      \o " chars) - minimum 1000 expected">>
               ELSE <<>>)
           \o (IF ~Contains(content, "framework_version: 1.1")
               THEN <<"Missing Framework v1.1 compliance">> ELSE <<>>)
           \o (IF sections_found < 12
               THEN <<"Missing " \o ToString(12 - sections_found)
                      \o " required Framework v1.1 sections">>
               ELSE <<>>),
           LAMBDA issues :
              [filename |-> filename,
               valid |-> Len(issues) = 0,
               issues |-> issues,
               timestamp |-> timestamp,
               summary |-> extract_summary_from_content(content),
               size |-> Len(content),
               framework_compliant |-> Contains(content, "framework_version: 1.1"),
               sections_found |-> sections_found]))

\* the analyses in the order they were discovered, without a sort
SortByTimestamp_unsorted(analyses) == analyses

\* valid_analyses.sort(key=timestamp): stable, ascending
RECURSIVE SortByTimestamp(_)
SortByTimestamp(analyses) ==
    IF Len(analyses) <= 1 THEN analyses
    ELSE With2(SortByTimestamp(SubSeq(analyses, 1, Len(analyses) - 1)), analyses[Len(analyses)],
               LAMBDA rest, x :
                  With(Cardinality({k \in 1..Len(rest) : rest[k].timestamp[1] <= x.timestamp[1]}),
                       LAMBDA n : SubSeq(rest, 1, n) \o <<x>> \o SubSeq(rest, n + 1, Len(rest))))

\* f"{minutes / 60:.1f}" for a number of minutes that is no rounding tie
FmtHours(minutes) ==
    With((minutes * 10 + 30) \div 60,
         LAMBDA tenths : ToString(tenths \div 10) \o "." \o ToString(tenths % 10))

\* the large-gap threshold of line 271, in seconds
LargeGapSeconds == 21600

\* timeline_issue with a large-gap threshold of 4 hours
timeline_issue_four_hours(current, next_file) ==
    With(next_file.timestamp[1] - current.timestamp[1], LAMBDA time_diff :
       IF time_diff * 60 < 0
       THEN <<"Timeline overlap: " \o current.filename \o " after " \o next_file.filename>>
       ELSE IF time_diff * 60 > 14400
       THEN <<"Large gap: " \o FmtHours(time_diff) \o " hours between " \o current.filename
              \o " and " \o next_file.filename>>
       ELSE <<>>)

\* lines 259-274: the issue of one pair of adjacent files, or none
timeline_issue(current, next_file) ==
    With(next_file.timestamp[1] - current.timestamp[1], LAMBDA time_diff :
       \* time_diff.total_seconds() is time_diff * 60
       IF time_diff * 60 < 0
       THEN <<"Timeline overlap: " \o current.filename \o " after " \o next_file.filename>>
       ELSE IF time_diff * 60 > LargeGapSeconds
       THEN <<"Large gap: " \o FmtHours(time_diff) \o " hours between " \o current.filename
              \o " and " \o next_file.filename>>
       ELSE <<>>)

\* validate_timeline_continuity: the list of issues
validate_timeline_continuity(analyses) ==
    With(SortByTimestamp(SelectSeq(analyses, LAMBDA a : a.timestamp # None)),
         LAMBDA valid_analyses :
            Concat([i \in 1..(Len(valid_analyses) - 1) |->
                      timeline_issue(valid_analyses[i], valid_analyses[i + 1])]))

\* lines 319-327: some recent summary shares one of its first five words
\* longer than five characters with the live context
content_found(recent_files, live_lower) ==
    \E k \in 1..Len(recent_files) :
        /\ recent_files[k].summary # ""
        /\ With(SelectSeq(SplitWords(Lower(recent_files[k].summary)), LAMBDA w : Len(w) > 5),
                LAMBDA summary_words :
                   \E j \in 1..Min(5, Len(summary_words)) : Contains(live_lower, summary_words[j]))

\* validate_against_live_context at time current_time; live_context is None
\* or a text.  raised: max() of an empty sequence raises ValueError.
validate_against_live_context(analyses, live_context, current_time) ==
    IF live_context = None \/ live_context = Some("") THEN [raised |-> FALSE, issues |-> <<>>]
    ELSE IF Len(analyses) = 0 THEN [raised |-> FALSE, issues |-> <<>>]
    ELSE With(IF Len(analyses) > 1 THEN SubSeq(analyses, 1, 2) ELSE analyses,
              LAMBDA recent_files :
       With({recent_files[k].timestamp[1] :
                k \in {j \in 1..Len(recent_files) : recent_files[j].timestamp # None}},
            LAMBDA stamps :
               IF stamps = {} THEN [raised |-> TRUE, issues |-> <<>>]
               \* time_since_latest.total_seconds() < 7200
               ELSE IF /\ (current_time - Greatest(stamps)) * 60 < 7200
                       /\ ~content_found(recent_files, Lower(live_context[1]))
               THEN [raised |-> FALSE,
                     issues |-> <<"Recent chat files don't appear to reflect current conversation context">>]
               ELSE [raised |-> FALSE, issues |-> <<>>]))

\* the overall health computed without the live-context issues
overall_health_without_context(valid_count, total, timeline_issues, context_issues) ==
    valid_count = total /\ Len(timeline_issues) = 0

\* lines 401-404: the overall health of a non-empty list of analyses
overall_health(valid_count, total, timeline_issues, context_issues) ==
    /\ valid_count = total
    /\ Len(timeline_issues) = 0
    /\ Len(context_issues) = 0

\* the exit status of a main that always reports success
health_exit_code_always_zero(healthy) == 0

\* lines 573-600: main returns exit_code == 0 and the script ends with
\* sys.exit(0 if success else 1)
health_exit_code(healthy) == IF healthy THEN 0 ELSE 1

\* generate_comprehensive_report (the keys timeline and summary, which only
\* the display reads, are left out)
generate_comprehensive_report(analyses, timeline_issues, context_issues) ==
    IF Len(analyses) = 0
    THEN [healthy |-> FALSE, total_files |-> 0, valid_files |-> 0,
          issues |-> <<"No chat files found for analysis">>]
    ELSE With2(SelectSeq(analyses, LAMBDA a : a.valid), SelectSeq(analyses, LAMBDA a : ~a.valid),
               LAMBDA valid_files, invalid_files :
                  [healthy |-> overall_health(Len(valid_files), Len(analyses),
                                              timeline_issues, context_issues),
                   total_files |-> Len(analyses),
                   valid_files |-> Len(valid_files),
                   invalid_files |-> Len(invalid_files),
                   framework_compliant |->
                      Len(SelectSeq(analyses, LAMBDA a : a.framework_compliant)),
                   issues |->
                      Concat([k \in 1..Len(invalid_files) |->
                                [j \in 1..Len(invalid_files[k].issues) |->
                                    invalid_files[k].filename \o ": "
                                    \o invalid_files[k].issues[j]]])
                      \o timeline_issues \o context_issues])

(***************************************************************************)
(* git_commit.py                                                           *)
(***************************************************************************)

\* format_dual_time; the local time zone is UTC
format_dual_time(t) == FmtClock(t) \o " (GMT: " \o FmtClock(t) \o ")"

\* auto_extract_conversation_context of git_commit.py at time t.  status is
\* what "git status --porcelain" printed, None when git cannot be started
extract_live_context(t, status) ==
    Join(<<"Live conversation at " \o format_dual_time(t),
           "Data Core System git commit process initiated",
           "AI-first auto-extraction of conversation context",
           IF status = None THEN "Git status unavailable"
           ELSE IF Strip(status[1]) # ""
                THEN "Git changes detected: " \o ToString(WordCount(Strip(status[1])))
           ELSE "No git changes detected">>, " | ")

\* execute_system_command never terminating the process
execute_system_command_continues(ok, critical) == FALSE

\* execute_system_command: the process terminates (sys.exit(1)) when the
\* command failed and is critical
execute_system_command_exits(ok, critical) == ~ok /\ critical

\* subprocess.run(..., check=True) of save_chat.py accepting every status
save_failed_never(returncode) == FALSE

\* save_current_conversation_first: CalledProcessError is raised for a
\* non-zero return code of save_chat.py
save_failed(returncode) == returncode # 0

\* lines 164-176: the (status_code, filename) pairs of the porcelain lines
parse_changes(status_output) ==
    With(SelectSeq(SplitLines(Strip(status_output)), LAMBDA line : Strip(line) # ""),
         LAMBDA lines :
            [k \in 1..Len(lines) |->
                [status |-> SubSeq(lines[k], 1, Min(2, Len(lines[k]))),
                 filename |-> Strip(SubSeq(lines[k], 4, Len(lines[k])))]])

\* lines 187-193: the lines added and removed that "git diff --numstat" lists
RECURSIVE count_lines_changed(_)
count_lines_changed(diff_lines) ==
    IF Len(diff_lines) = 0 THEN 0
    ELSE With(Split(Head(diff_lines), "\t"), LAMBDA parts :
            (IF /\ Strip(Head(diff_lines)) # ""
                /\ Len(parts) >= 2 /\ IsDigits(parts[1]) /\ IsDigits(parts[2])
             THEN ParseInt(parts[1]) + ParseInt(parts[2]) ELSE 0)
            + count_lines_changed(Tail(diff_lines)))

\* lines 196-224: the backup tier of a non-empty list of changes
backup_level_of(changes, lines_changed) ==
    IF \/ Len(changes) > 50
       \/ lines_changed > 1000
       \/ \E k \in 1..Len(changes) :
             /\ Contains(changes[k].filename, "/")
             /\ (Contains(changes[k].status, "A") \/ Contains(changes[k].status, "??"))
       \/ \E k \in 1..Len(changes) :
             AnyIn(<<"framework", "readme", "process", "spec">>, Lower(changes[k].filename))
    THEN "major"
    ELSE IF Len(changes) > 10 \/ lines_changed > 200 THEN "standard"
    ELSE "minor"

\* analyze_repository_changes, given the output of "git status --porcelain"
\* and the result of "git diff --numstat HEAD" (None when the command failed)
analyze_repository_changes(status_output, diff) ==
    IF Strip(status_output) = "" THEN "none"
    ELSE backup_level_of(parse_changes(status_output),
            IF diff # None /\ diff[1] # ""
            THEN count_lines_changed(SplitLines(diff[1])) ELSE 0)

\* create_tiered_backup_branch: the name of the branch
backup_branch_name(backup_level, t) == "backup-" \o backup_level \o "-" \o FmtBranch(t)

\* datetime.strptime(s, "%Y%m%d-%H%M") for the zero-padded form YYYYMMDD-HHMM
\* that FmtBranch writes; None (ValueError) for every other text
strptime_branch(s) ==
    IF /\ Len(s) = 13
       /\ IsDigits(SubSeq(s, 1, 8)) /\ CharAt(s, 9) = "-" /\ IsDigits(SubSeq(s, 10, 13))
    THEN With([k \in 1..5 |-> ParseInt(SubSeq(s, <<1, 5, 7, 10, 12>>[k], <<4, 6, 8, 11, 13>>[k]))],
              LAMBDA field :
                 IF /\ field[1] \in 1..9999
                    /\ field[2] \in 1..12
                    /\ field[3] \in 1..DaysInMonth(field[1], field[2])
                    /\ field[4] \in 0..23
                    /\ field[5] \in 0..59
                 THEN Some(MinutesOf(field[1], field[2], field[3], field[4], field[5]))
                 ELSE None)
    ELSE None

\* what "git branch -r" prints for the remote branches
branch_listing(remote) ==
    With(SortNamesDesc(remote), LAMBDA names :
       Join(<<"  origin/HEAD -> origin/main">>
            \o [k \in 1..Len(names) |-> "  origin/" \o names[Len(names) + 1 - k]]
            \o <<"  origin/main">>, "\n"))

\* lines 432-444: the (branch_name, timestamp) pairs of one tier
tier_inventory(branches_output, tier) ==
    With(SelectSeq(StripAll(SplitLines(branches_output)),
                   LAMBDA line : Contains(line, "backup-") /\ Contains(line, "origin/")),
         LAMBDA lines :
            Concat([k \in 1..Len(lines) |->
               With(Strip(Replace(lines[k], "origin/", "")), LAMBDA branch_name :
                  IF ~Contains(branch_name, "backup-" \o tier \o "-") THEN <<>>
                  ELSE With(strptime_branch(Split(branch_name, "backup-" \o tier \o "-")[2]),
                            LAMBDA timestamp :
                               IF timestamp = None THEN <<>>
                               ELSE << [branch_name |-> branch_name,
                                        timestamp |-> timestamp[1]] >>))]))

\* branches.sort(key=timestamp, reverse=True): stable, descending
RECURSIVE SortNewestFirst(_)
SortNewestFirst(branches) ==
    IF Len(branches) <= 1 THEN branches
    ELSE With2(SortNewestFirst(SubSeq(branches, 1, Len(branches) - 1)), branches[Len(branches)],
               LAMBDA rest, x :
                  With(Cardinality({k \in 1..Len(rest) : rest[k].timestamp >= x.timestamp}),
                       LAMBDA n : SubSeq(rest, 1, n) \o <<x>> \o SubSeq(rest, n + 1, Len(rest))))

\* the number of backups of a tier that the cleanup keeps
KeepBackups == 5

\* the branches of one tier past the first KeepBackups of the listing, unsorted
legacy_branches_without_sort(branches_output, tier) ==
    With(tier_inventory(branches_output, tier), LAMBDA branches :
       IF Len(branches) > KeepBackups
       THEN [k \in 1..(Len(branches) - KeepBackups) |-> branches[KeepBackups + k].branch_name]
       ELSE <<>>)

\* lines 450-465: the branches of one tier that the cleanup deletes, in order
legacy_branches(branches_output, tier) ==
    With(tier_inventory(branches_output, tier), LAMBDA branches :
       IF Len(branches) > KeepBackups
       THEN With(SortNewestFirst(branches), LAMBDA sorted :
               [k \in 1..(Len(sorted) - KeepBackups) |-> sorted[KeepBackups + k].branch_name])
       ELSE <<>>)

\* cleanup_legacy_backup_branches: the branches it deletes, tier by tier
cleanup_deletions(branches_output) ==
    legacy_branches(branches_output, "major")
    \o legacy_branches(branches_output, "standard")
    \o legacy_branches(branches_output, "minor")

(***************************************************************************)
(* validate_memory.py and scripts/utils/memory_file_validator.py           *)
(***************************************************************************)

\* a match of the marker alone, without the white space and the text after it
marker_match_prefix_only(line, marker) == StartsWith(line, marker)

\* re.compile(r'^User:\s+.+').match(line), and the same for Assistant, on a
\* line that holds no "\n": the marker, white space, at least one character
marker_match(line, marker) ==
    /\ StartsWith(line, marker)
    /\ Len(line) >= Len(marker) + 2
    /\ IsSpace(CharAt(line, Len(marker) + 1))

Rejected(message) == [ok |-> FALSE, message |-> message]
Accepted(message) == [ok |-> TRUE, message |-> message]

\* the loop of validate_memory_file_format and the checks after it;
\* current_speaker "none" is None
RECURSIVE vmf_loop(_, _, _, _)
vmf_loop(lines, i, current_speaker, message_count) ==
    IF i > Len(lines)
    THEN IF current_speaker # "assistant"
         THEN Rejected("Memory file must end with Assistant message")
         ELSE IF message_count < 2
         THEN Rejected("Memory file must contain at least one complete message pair")
         ELSE Accepted("Format validation passed: " \o ToString(message_count) \o " messages")
    ELSE With(Strip(lines[i]), LAMBDA line :
            IF line = "" THEN vmf_loop(lines, i + 1, current_speaker, message_count)
            ELSE IF marker_match(line, "User:")
                 THEN IF current_speaker = "user"
                      THEN Rejected("Consecutive User messages at line "
                                    \o ToString(message_count + 1))
                      ELSE vmf_loop(lines, i + 1, "user", message_count + 1)
            ELSE IF marker_match(line, "Assistant:")
                 THEN IF current_speaker = "assistant"
                      THEN Rejected("Consecutive Assistant messages at line "
                                    \o ToString(message_count + 1))
                      ELSE vmf_loop(lines, i + 1, "assistant", message_count + 1)
            ELSE IF current_speaker = "none"
                 THEN Rejected("Message content without speaker at line "
                               \o ToString(message_count + 1))
            ELSE vmf_loop(lines, i + 1, current_speaker, message_count))

\* validate_memory_file_format (the two files hold the same function)
validate_memory_file_format(content) ==
    IF Strip(content) = "" THEN Rejected("Memory file is empty")
    ELSE With(SplitLines(Strip(content)), LAMBDA lines :
            IF Len(lines) < 2
            THEN Rejected("Memory file must contain at least one message pair")
            ELSE vmf_loop(lines, 1, "none", 0))

\* the stripped lines of content.strip().split('\n') that are not empty
nonempty_lines(content) ==
    SelectSeq(StripAll(SplitLines(Strip(content))), LAMBDA line : line # "")

\* the first line that is not empty, in the place of the last one
get_last_message_first_line(content) ==
    With(nonempty_lines(content), LAMBDA lines :
       IF Len(lines) = 0 THEN None ELSE Some(lines[1]))

\* get_last_message: None when every line is empty
get_last_message(content) ==
    With(nonempty_lines(content), LAMBDA lines :
       IF Len(lines) = 0 THEN None ELSE Some(lines[Len(lines)]))

\* get_first_message: None when every line is empty
get_first_message(content) ==
    With(nonempty_lines(content), LAMBDA lines :
       IF Len(lines) = 0 THEN None ELSE Some(lines[1]))

\* open(path).read() on the file system fs: None when it raises (no such
\* file, or a file that cannot be read)
read_file(fs, path) == IF path \in DOMAIN fs.files THEN fs.files[path] ELSE None

\* the last comparison of validate_gapless_history
gapless_connection_ignored(last_previous, first_new) == TRUE

\* lines 112-116 (110-114): the previous file has to end with the line the
\* new file starts with
gapless_connection(last_previous, first_new) == last_previous = first_new

\* validate_gapless_history; previous_file_path is None when it is not given
validate_gapless_history(fs, new_file_path, previous_file_path) ==
    With(read_file(fs, new_file_path), LAMBDA new_content :
       IF new_content = None THEN Rejected("Error reading new memory file")
       ELSE With(validate_memory_file_format(new_content[1]), LAMBDA format :
          IF ~format.ok
          THEN Rejected("New memory file format invalid: " \o format.message)
          ELSE IF \/ previous_file_path = None
                  \/ previous_file_path[1] = ""
                  \/ previous_file_path[1] \notin DOMAIN fs.files
          THEN Accepted("First memory file - no gapless history check needed")
          ELSE With(read_file(fs, previous_file_path[1]), LAMBDA previous_content :
             IF previous_content = None THEN Rejected("Error reading previous memory file")
             ELSE With2(get_last_message(previous_content[1]), get_first_message(new_content[1]),
                        LAMBDA last_previous, first_new :
                IF last_previous = None
                THEN Rejected("Previous memory file has no valid last message")
                ELSE IF first_new = None
                THEN Rejected("New memory file has no valid first message")
                ELSE IF ~gapless_connection(last_previous, first_new)
                THEN Rejected("Gapless history validation failed:\nPrevious file ends with: "
                              \o last_previous[1] \o "\nNew file starts with: " \o first_new[1])
                ELSE Accepted("Gapless history validation passed")))))

\* the directory of the memory files
memories_dir == "chats/chat_memories/temp"

\* os.path.basename(path)
basename(path) ==
    With(Split(path, "/"), LAMBDA parts : parts[Len(parts)])

\* os.listdir(memories_dir): the names of the files of the directory
listdir_memories(fs) ==
    {basename(path) : path \in {q \in DOMAIN fs.files : StartsWith(q, memories_dir \o "/")}}

\* lines 168-173 and 183-186: the batch number of a file name, None when the
\* name is not chat_memory_batch_<digits>.txt
batch_number(file) ==
    IF StartsWith(file, "chat_memory_batch_") /\ EndsWith(file, ".txt")
    THEN With(Replace(Replace(file, "chat_memory_batch_", ""), ".txt", ""), LAMBDA batch_str :
            IF IsDigits(batch_str) THEN Some(ParseInt(batch_str)) ELSE None)
    ELSE None

\* lines 165-196: the most recent memory before the one that is validated
previous_memory_of(fs, memory_file_path) ==
    With(batch_number(basename(memory_file_path)), LAMBDA current_batch :
       IF current_batch = None THEN None
       ELSE With({file \in listdir_memories(fs) :
                     /\ batch_number(file) # None
                     /\ batch_number(file)[1] < current_batch[1]},
                 LAMBDA earlier :
                    IF earlier = {} THEN None
                    ELSE Some(memories_dir \o "/"
                              \o (CHOOSE file \in earlier :
                                    \A other \in earlier :
                                       batch_number(other)[1] <= batch_number(file)[1]))))

(***************************************************************************)
(* Inputs and bounds                                                       *)
(***************************************************************************)

\* transcripts offered to the save pipeline
T_A == "User: I think this is important because we must design the archive carefully\nAssistant: Let me create a plan and we will implement the parser first\nUser: We decided to build the validator and found a critical gap in the timeline"
T_B == "User: Can you fix the broken test suite before the release goes out tomorrow?\nAssistant: I realized the fixtures should be updated so the health check passes again"
T_C == "we found a critical bug in there\nthe rest of this note talks about nothing in particular at all\nand it goes on for a while so that it is long enough to be saved"
T_SHORT == "User: hello there"
T_LONG == "Assistant: The core issue is that the archive loses a record when two saves land in the same minute\nso every record needs a name that cannot collide with the name of an older record\nand the writer has to refuse to replace a file that is already in the directory\n\nUser: I think this is important because the archive is the only memory we keep between sessions and a record that is lost cannot be written again from anything else we have\nAssistant: Then the plan is to add the seconds to the file name and to check that the path is free before the file is opened for writing"
T_PH == "User: I think this is important because the template still says [Brief overview of the session] in its summary\nAssistant: I realized the placeholder should be replaced before the record is written"
T_FEW == "Supercalifragilisticexpialidocious Supercalifragilisticexpialidocious Supercalifragilisticexpialidocious word"

\* the ways save_chat.py is started: sys.argv[1:], CHAT_CONTEXT, piped stdin
Invocations ==
    { [argv |-> <<"">>,      env |-> None,       stdin |-> None],
      [argv |-> <<>>,        env |-> Some(""),   stdin |-> None],
      [argv |-> <<>>,        env |-> None,       stdin |-> Some("")],
      [argv |-> <<>>,        env |-> None,       stdin |-> None],
      [argv |-> <<>>,        env |-> Some(""),   stdin |-> Some("\n")],
      [argv |-> <<T_A>>,     env |-> Some(T_B),  stdin |-> None],
      [argv |-> <<>>,        env |-> Some(T_B),  stdin |-> None],
      [argv |-> <<>>,        env |-> None,       stdin |-> Some("\n" \o T_C \o "\n")],
      [argv |-> <<T_SHORT>>, env |-> None,       stdin |-> None],
      [argv |-> <<T_LONG>>,  env |-> None,       stdin |-> None],
      [argv |-> <<T_PH>>,    env |-> None,       stdin |-> None],
      [argv |-> <<T_FEW>>,   env |-> None,       stdin |-> None] }

\* what reference/value_patterns.md holds: absent, or the entries of its
\* sections (see parse_patterns_from_content)
PatternFiles ==
    { None,
      Some([explicit |-> Some(<< <<"I think this is important", 85>>, <<"must", 70>> >>),
            structural |-> None]),
      Some([explicit |-> None,
            structural |-> Some(<< <<10, 75>>, <<20, 80>> >>)]),
      Some([explicit |-> Some(<< <<"I think this is important", 85>>, <<"important", 95>>,
                                 <<"The core issue is", 80>> >>),
            structural |-> Some(<< <<10, 65>>, <<20, 80>> >>)]) }

\* the clock at the start, 2025-01-01 10:05 UTC
StartTime == 605
\* how many minutes the clock may advance
MaxTicks == 1
\* how many processes may be started
MaxRuns == 2
\* git_commit.py is started among the first MaxGitRuns processes
MaxGitRuns == 1
\* validate_memory.py is started, and memory_file_validator.py is called,
\* among the first MaxMemoryRuns processes
MaxMemoryRuns == 1

\* a record as the earlier schema version 1.1 of the tool wrote it at time t
LegacyRecord(t) ==
    Replace(create_chat_report_content(
                analyze_conversation_content(T_B, <<>>,
                    create_value_preserved_section(<<>>, T_B), t),
                generate_uuid(t), t),
            "framework_version: 2.0", "framework_version: 1.1")

NoFiles == [f \in {} |-> ""]

\* what a file of the directory holds, by its name
StoredContent(f) ==
    With(parse_temporal_filename(f), LAMBDA timestamp :
       IF timestamp # None THEN LegacyRecord(timestamp[1])
       ELSE IF f = "chat-notes.md" THEN "just some notes"
       ELSE "# Title\nfirst line\n## Other\nsecond")

\* the directories the processes may find
Stores ==
    { [f \in names |-> StoredContent(f)] :
        names \in { {},
                    \* one recent record
                    {"chat-2025-01-01-10-00.md"},
                    \* two records 5 hours apart
                    {"chat-2025-01-01-05-00.md", "chat-2025-01-01-10-00.md"},
                    \* two records 7 hours apart
                    {"chat-2025-01-01-03-00.md", "chat-2025-01-01-10-00.md"},
                    \* two records whose names sort against their timestamps ("9" > "1")
                    {"chat-2025-01-01-9-30.md", "chat-2025-01-01-10-00.md"},
                    \* a record and a file whose name holds no timestamp
                    {"chat-2025-01-01-10-00.md", "chat-notes.md"},
                    \* only files whose names hold no timestamp
                    {"chat-2025-13-01-10-00.md", "chat-notes.md", "readme.txt"},
                    \* two records 7 hours apart and, between them, a name with minute 60
                    {"chat-2025-01-01-03-00.md", "chat-2025-01-01-05-60.md",
                     "chat-2025-01-01-10-00.md"},
                    \* one record whose timestamp is an hour ahead of the clock
                    {"chat-2025-01-01-11-00.md"} } }

\* the backup branches of a remote that has been in use for a while
ManyBackups ==
    { "backup-minor-20241225-0900", "backup-minor-20241226-0900",
      "backup-minor-20241227-0900", "backup-minor-20241228-0900",
      "backup-minor-20241229-0900", "backup-minor-20241230-0900",
      "backup-major-20241201-1200", "backup-minor-before-rewrite" }

RefPatterns ==
    Some([explicit |-> Some(<< <<"I think this is important", 85>>, <<"must", 70>> >>),
          structural |-> None])

\* the states the processes may start from: the path "chats" with its files,
\* and the patterns file
InitialConfigs ==
    {[chats_dir |-> "dir", files |-> NoFiles, patterns_file |-> pf,
      local |-> {}, remote |-> {}] : pf \in PatternFiles}
    \cup {[chats_dir |-> "dir", files |-> st, patterns_file |-> RefPatterns,
           local |-> {}, remote |-> {}] : st \in Stores}
    \cup {[chats_dir |-> d, files |-> NoFiles, patterns_file |-> RefPatterns,
           local |-> {}, remote |-> {}] : d \in {"missing", "file", "denied"}}
    \cup {[chats_dir |-> "dir", files |-> NoFiles, patterns_file |-> RefPatterns,
           local |-> {backup_branch_name("minor", StartTime)}, remote |-> ManyBackups]}

\* what "git status --porcelain" may print
GitStatusOutputs ==
    { "",
      " M notes.txt\n",
      "?? chats/chat-2025-01-01-10-05.md\n M README.md\n" }

\* the result of "git diff --numstat HEAD": None when the command fails
GitDiffResults ==
    { None, Some("3\t1\tnotes.txt\n"), Some("250\t10\tnotes.txt\n-\t-\tlogo.png\n") }

\* the ways chat_health_check.py is started
HealthInvocations ==
    { [argv |-> <<>>, env |-> None, stdin |-> None],
      [argv |-> <<"">>, env |-> None, stdin |-> None],
      [argv |-> <<>>, env |-> Some("we are still working on the broken test suite"), stdin |-> None],
      [argv |-> <<"nothing of the records is mentioned here">>, env |-> None, stdin |-> None] }

\* the lines the short memory files are made of
MemoryLines == {"User: hi", "Assistant: ok", "and more", "", "User:", "  Assistant:  yes  "}

\* how many lines a short memory file has at most
MaxMemoryLines == 3

\* memory files of at least 100 bytes
LongMemory == "User: what did we decide about the names of the records in the archive?\nAssistant: we decided to add the seconds to the name of every record"
LongReply == "Assistant: ok\nUser: and what happens to the records that are already in the archive?\nAssistant: they keep their names"

\* what a memory file may hold: at most n of the lines, or one of the long texts
MemoryContents(n) ==
    {Join(lines, "\n") : lines \in UNION {[1..k -> MemoryLines] : k \in 0..n}}
    \cup {LongMemory, LongReply}

\* what the memory file of the batch before may hold: None when it cannot be read
PreviousMemories ==
    { Some("User: hey\nAssistant: ok\n\n"),
      Some("User: hey\nAssistant: fine"),
      Some("User: hi"),
      Some("note\nUser: what did we decide about the names of the records in the archive?  "),
      Some(" \n"),
      Some("User: hi\nAssistant: ok\nand more"),
      None }

MemoryPath(n) == memories_dir \o "/chat_memory_batch_" \o n \o ".txt"

\* the memory files validate_memory.py may find: the directory exists or not,
\* and files holds the text of each path (None for a file that cannot be read)
MemoryStores ==
    { [dir |-> FALSE, files |-> ("inbox/notes.txt" :> Some(LongMemory))],
      [dir |-> TRUE, files |-> (MemoryPath("1") :> Some("User: hey\nAssistant: ok"))],
      [dir |-> TRUE, files |-> (MemoryPath("1") :> Some("User: hey\nAssistant: ok"))
                               @@ ("inbox/notes.txt" :> Some(LongMemory))] }
    \cup {[dir |-> TRUE, files |-> (MemoryPath("2") :> new)] :
             new \in {Some(c) : c \in MemoryContents(MaxMemoryLines)} \cup {None}}
    \cup {[dir |-> TRUE,
           files |-> (MemoryPath("1") :> previous) @@ (MemoryPath("2") :> Some(new))
                     @@ (MemoryPath("3") :> Some(LongMemory))
                     @@ (MemoryPath("final") :> Some("User: hey\nAssistant: ok"))] :
             new \in MemoryContents(MaxMemoryLines - 1), previous \in PreviousMemories}

\* the ways validate_memory.py is started: sys.argv[1:]
MemoryArguments == {<<>>, <<MemoryPath("2")>>, <<"inbox/notes.txt">>}

\* the previous_file_path a caller of validate_gapless_history may give
PreviousPaths == {None, Some(""), Some(MemoryPath("0")), Some(MemoryPath("1"))}

\* the ways data_core.py is started: sys.argv[1:]
CoreArguments ==
    { <<>>,
      <<"status">>,
      <<"save">>,
      <<"save", "chat">>,
      <<"validate", "memory">>,
      <<"validate", "memory", "-f", MemoryPath("2")>>,
      <<"validate", "memory", "--file">>,
      <<"validate", "memory", "--file", MemoryPath("2")>>,
      <<"health">>,
      <<"health", "">>,
      <<"health", "we are still working on the broken test suite">>,
      <<"commit">>,
      <<"commit", "we are still working on the broken test suite">> }

\* the value of CHAT_CONTEXT in the environment of data_core.py
CoreEnvironments == {None, Some(T_B)}

\* the memory files validate_memory.py may find when data_core.py starts it
CoreMemoryStores ==
    { [dir |-> FALSE, files |-> ("inbox/notes.txt" :> Some(LongMemory))],
      [dir |-> TRUE, files |-> (MemoryPath("2") :> Some(LongMemory))],
      [dir |-> TRUE, files |-> (MemoryPath("2") :> Some("User: hi\nand more"))],
      [dir |-> TRUE, files |-> (MemoryPath("2") :> Some("User: hi\nAssistant: ok"))],
      [dir |-> TRUE, files |-> (MemoryPath("1") :> Some("User: hey\nAssistant: ok"))
                               @@ (MemoryPath("2") :> Some(LongReply))],
      [dir |-> TRUE, files |-> (MemoryPath("1") :> Some("User: hey\nAssistant: fine"))
                               @@ (MemoryPath("2") :> Some(LongReply))] }

\* data_core.py is started among the first MaxCoreRuns processes
MaxCoreRuns == 1

(***************************************************************************)
(* State                                                                   *)
(***************************************************************************)
VARIABLES
    now,            \* the clock, minutes since 2025-01-01 00:00 UTC
    chats_dir,      \* the path "chats": "dir", "missing", "file" or "denied"
    files,          \* the files of the directory "chats": name -> content
    patterns_file,  \* reference/value_patterns.md (None when absent)
    uuids,          \* how many identifiers uuid4 has produced
    runs,           \* how many processes have been started
    sv,             \* the save_chat.py process
    hc,             \* the chat_health_check.py process
    gc,             \* the git_commit.py process
    repo,           \* the git repository and its remote
    memories,       \* the memory files: the directory chats/chat_memories/temp and the paths
    mv,             \* the last call of scripts/utils/memory_file_validator.py
    vm,             \* the validate_memory.py process
    dc              \* the data_core.py front end

vars == <<now, chats_dir, files, patterns_file, uuids, runs, sv, hc, gc, repo, memories, mv, vm, dc>>

\* a process that is not running: never started, or terminated
SvOff ==
    [pc |-> "off", exit |-> -1, parent |-> "shell",
     argv |-> <<>>, env |-> None, stdin |-> None,
     patterns |-> None, conversation_content |-> None,
     messages |-> <<>>, high_value_sections |-> <<>>, analysis |-> None,
     gap_details |-> "", latest_content |-> None,
     filename |-> "", report_content |-> "",
     written |-> FALSE, saved_content |-> None, verified |-> FALSE, success |-> FALSE]

HcOff ==
    [pc |-> "off", exit |-> -1, argv |-> <<>>, env |-> None, stdin |-> None,
     live_context |-> None, chat_files |-> <<>>, analyses |-> <<>>,
     timeline_issues |-> <<>>, context_issues |-> <<>>, report |-> None]

GcOff ==
    [pc |-> "off", exit |-> -1, live_context |-> "", save_status |-> -1,
     backup_level |-> "", backup_branch |-> "", log |-> <<>>]

\* no call of the validator module yet
MvOff ==
    [called |-> FALSE, new_file_path |-> "", previous_file_path |-> None,
     result |-> Rejected("")]

VmOff ==
    [pc |-> "off", exit |-> -1, argv |-> <<>>, previous_memory |-> None,
     format |-> Rejected(""), history |-> None]

\* data_core.py: child is the sub-process it has started ("none" before),
\* child_status the exit status of that sub-process (-1 before it has ended)
DcOff ==
    [pc |-> "off", exit |-> -1, argv |-> <<>>, env |-> None, stdin |-> None,
     child |-> "none", child_status |-> -1]

NoMemories == [dir |-> TRUE, files |-> [f \in {} |-> None]]

Idle ==
    /\ sv.pc \in {"off", "exit"} /\ hc.pc \in {"off", "exit"} /\ gc.pc \in {"off", "exit"}
    /\ vm.pc \in {"off", "exit"}
    /\ dc.pc \in {"off", "exit"}

\* sys.exit(status), or an uncaught exception (status 1)
SvExit(status) == sv' = [sv EXCEPT !.pc = "exit", !.exit = status]

(***************************************************************************)
(* save_chat.py main                                                       *)
(***************************************************************************)

\* the operator starts save_chat.py from the shell
SaveStart ==
    /\ Idle
    /\ runs < MaxRuns
    /\ \E inv \in Invocations :
          sv' = [SvOff EXCEPT !.pc = "step1", !.argv = inv.argv, !.env = inv.env,
                              !.stdin = inv.stdin]
    /\ runs' = runs + 1
    /\ hc' = HcOff
    /\ gc' = GcOff
    /\ UNCHANGED <<now, chats_dir, files, patterns_file, uuids, repo, memories, mv, vm, dc>>

\* STEP 1: environment validation
SaveStep1 ==
    /\ sv.pc = "step1"
    /\ IF chats_dir = "missing" THEN SvExit(1) ELSE sv' = [sv EXCEPT !.pc = "step2"]
    /\ UNCHANGED <<now, chats_dir, files, patterns_file, uuids, runs, hc, gc, repo, memories, mv, vm, dc>>

\* STEP 2: load the value detection system
SaveStep2 ==
    /\ sv.pc = "step2"
    /\ sv' = [sv EXCEPT !.pc = "step3", !.patterns = Some(load_value_patterns(patterns_file))]
    /\ UNCHANGED <<now, chats_dir, files, patterns_file, uuids, runs, hc, gc, repo, memories, mv, vm, dc>>

\* STEP 3: auto-extract the conversation context
SaveStep3 ==
    /\ sv.pc = "step3"
    /\ LET conversation_content == auto_extract_conversation_context(sv.argv, sv.env, sv.stdin)
       IN IF conversation_content = None THEN SvExit(1)
          ELSE sv' = [sv EXCEPT !.pc = "step4", !.conversation_content = conversation_content]
    /\ UNCHANGED <<now, chats_dir, files, patterns_file, uuids, runs, hc, gc, repo, memories, mv, vm, dc>>

\* STEP 4: content validation
SaveStep4 ==
    /\ sv.pc = "step4"
    /\ IF ~validate_conversation_content(sv.conversation_content[1]) THEN SvExit(1)
       ELSE sv' = [sv EXCEPT !.pc = "step5"]
    /\ UNCHANGED <<now, chats_dir, files, patterns_file, uuids, runs, hc, gc, repo, memories, mv, vm, dc>>

\* STEP 5 to STEP 7: value pattern recognition, analysis, compliance validation
SaveStep5to7 ==
    /\ sv.pc = "step5"
    /\ With(detect_high_value_content(sv.conversation_content[1], sv.patterns[1]),
            LAMBDA detected :
         IF detected.err
         THEN sv' = [sv EXCEPT !.pc = "exit", !.exit = 1, !.messages = detected.messages]
         ELSE With(analyze_conversation_content(
                      sv.conversation_content[1], detected.sections,
                      create_value_preserved_section(detected.sections, sv.conversation_content[1]),
                      now),
                   LAMBDA analysis :
                      With(validate_framework_compliance(analysis), LAMBDA issues :
                         sv' = [sv EXCEPT
                                   !.pc = IF Len(issues) > 0 THEN "exit" ELSE "step8",
                                   !.exit = IF Len(issues) > 0 THEN 1 ELSE @,
                                   !.messages = detected.messages,
                                   !.high_value_sections = detected.sections,
                                   !.analysis = Some(analysis)])))
    /\ UNCHANGED <<now, chats_dir, files, patterns_file, uuids, runs, hc, gc, repo, memories, mv, vm, dc>>

\* STEP 8: gap analysis with previous reports
SaveStep8 ==
    /\ sv.pc = "step8"
    /\ With(check_for_gaps_with_previous_reports(chats_dir, files), LAMBDA gap :
          IF gap.raised \/ ~gap.ok THEN SvExit(1)
          ELSE sv' = [sv EXCEPT !.pc = "step9", !.gap_details = gap.details,
                                !.latest_content = gap.latest])
    /\ UNCHANGED <<now, chats_dir, files, patterns_file, uuids, runs, hc, gc, repo, memories, mv, vm, dc>>

\* STEP 9 and STEP 10: file metadata and report content
SaveStep9to10 ==
    /\ sv.pc = "step9"
    /\ sv' = [sv EXCEPT !.pc = "step11",
                        !.filename = create_temporal_filename(now),
                        !.report_content =
                            create_chat_report_content(sv.analysis[1], generate_uuid(uuids + 1), now)]
    /\ uuids' = uuids + 1
    /\ UNCHANGED <<now, chats_dir, files, patterns_file, runs, hc, gc, repo, memories, mv, vm, dc>>

\* open(filepath, 'w') creates the file or replaces its content
WriteFile(fs, name, content) ==
    [f \in DOMAIN fs \cup {name} |-> IF f = name THEN content ELSE fs[f]]

\* STEP 11: write the file to disk; the write may raise (the file cannot be
\* opened for writing), which leaves the directory as it was
SaveStep11 ==
    /\ sv.pc = "step11"
    /\ \/ /\ files' = WriteFile(files, sv.filename, sv.report_content)
          /\ sv' = [sv EXCEPT !.pc = "step12", !.written = TRUE]
       \/ /\ SvExit(1)
          /\ UNCHANGED files
    /\ UNCHANGED <<now, chats_dir, patterns_file, uuids, runs, hc, gc, repo, memories, mv, vm, dc>>

\* what reading the file back may give: its content, an error, or a content
\* that differs from what the file system was given (one character lost,
\* everything lost)
ReadBacks(content) ==
    {Some(content), None, Some(SubSeq(content, 1, Len(content) - 1)), Some("")}

\* STEP 12: file integrity verification
SaveStep12 ==
    /\ sv.pc = "step12"
    /\ \E saved \in ReadBacks(files[sv.filename]) :
          IF ~verify_file_integrity(saved, sv.report_content)
          THEN sv' = [sv EXCEPT !.pc = "exit", !.exit = 1, !.saved_content = saved]
          ELSE sv' = [sv EXCEPT !.pc = "step13", !.saved_content = saved, !.verified = TRUE]
    /\ UNCHANGED <<now, chats_dir, files, patterns_file, uuids, runs, hc, gc, repo, memories, mv, vm, dc>>

\* STEP 13 and STEP 14 (neither can fail the save), the SUCCESS report and
\* the return of main
SaveStep13to14 ==
    /\ sv.pc = "step13"
    /\ sv' = [sv EXCEPT !.pc = "exit", !.exit = 0, !.success = TRUE]
    /\ UNCHANGED <<now, chats_dir, files, patterns_file, uuids, runs, hc, gc, repo, memories, mv, vm, dc>>

(***************************************************************************)
(* chat_health_check.py main                                               *)
(***************************************************************************)

\* sys.exit(status), or an uncaught exception (status 1)
HcExit(status) == hc' = [hc EXCEPT !.pc = "exit", !.exit = status]

\* discover_chat_files: found is false when no name matches chat-*.md
discover_chat_files(fs) ==
    With(chat_files_of(fs),
         LAMBDA chat_files : [found |-> Len(chat_files) > 0, chat_files |-> chat_files])

\* the operator starts chat_health_check.py from the shell
HealthStart ==
    /\ Idle
    /\ runs < MaxRuns
    /\ \E inv \in HealthInvocations :
          hc' = [HcOff EXCEPT !.pc = "step1", !.argv = inv.argv, !.env = inv.env,
                              !.stdin = inv.stdin]
    /\ runs' = runs + 1
    /\ sv' = SvOff
    /\ gc' = GcOff
    /\ UNCHANGED <<now, chats_dir, files, patterns_file, uuids, repo, memories, mv, vm, dc>>

\* Step 1: environment validation
HealthStep1 ==
    /\ hc.pc = "step1"
    /\ IF ~validate_chats_directory(chats_dir) THEN HcExit(1)
       ELSE hc' = [hc EXCEPT !.pc = "step2"]
    /\ UNCHANGED <<now, chats_dir, files, patterns_file, uuids, runs, sv, gc, repo, memories, mv, vm, dc>>

\* Step 2: context extraction
HealthStep2 ==
    /\ hc.pc = "step2"
    /\ hc' = [hc EXCEPT !.pc = "step3",
                        !.live_context = auto_extract_context_if_available(hc.argv, hc.env, hc.stdin)]
    /\ UNCHANGED <<now, chats_dir, files, patterns_file, uuids, runs, sv, gc, repo, memories, mv, vm, dc>>

\* Step 3: file discovery
HealthStep3 ==
    /\ hc.pc = "step3"
    /\ With(discover_chat_files(files), LAMBDA discovery :
          IF ~discovery.found THEN HcExit(1)
          ELSE hc' = [hc EXCEPT !.pc = "step4", !.chat_files = discovery.chat_files])
    /\ UNCHANGED <<now, chats_dir, files, patterns_file, uuids, runs, sv, gc, repo, memories, mv, vm, dc>>

\* Step 4: analysis of the 10 most recent files
HealthStep4 ==
    /\ hc.pc = "step4"
    /\ hc' = [hc EXCEPT !.pc = "step5",
                        !.analyses = [k \in 1..Min(10, Len(hc.chat_files)) |->
                                         analyze_chat_file(files[hc.chat_files[k]], hc.chat_files[k])]]
    /\ UNCHANGED <<now, chats_dir, files, patterns_file, uuids, runs, sv, gc, repo, memories, mv, vm, dc>>

\* Step 5: timeline validation
HealthStep5 ==
    /\ hc.pc = "step5"
    /\ hc' = [hc EXCEPT !.pc = "step6",
                        !.timeline_issues = validate_timeline_continuity(hc.analyses)]
    /\ UNCHANGED <<now, chats_dir, files, patterns_file, uuids, runs, sv, gc, repo, memories, mv, vm, dc>>

\* Step 6: live context validation; an exception raised there is not caught
HealthStep6 ==
    /\ hc.pc = "step6"
    /\ With(validate_against_live_context(hc.analyses, hc.live_context, now), LAMBDA checked :
          IF checked.raised THEN HcExit(1)
          ELSE hc' = [hc EXCEPT !.pc = "step7", !.context_issues = checked.issues])
    /\ UNCHANGED <<now, chats_dir, files, patterns_file, uuids, runs, sv, gc, repo, memories, mv, vm, dc>>

\* Step 7 and Step 8, the final status report and sys.exit(0 if success else 1)
HealthStep7to8 ==
    /\ hc.pc = "step7"
    /\ With(generate_comprehensive_report(hc.analyses, hc.timeline_issues, hc.context_issues),
            LAMBDA health_report :
               hc' = [hc EXCEPT !.pc = "exit", !.exit = health_exit_code(health_report.healthy),
                                !.report = Some(health_report)])
    /\ UNCHANGED <<now, chats_dir, files, patterns_file, uuids, runs, sv, gc, repo, memories, mv, vm, dc>>

(***************************************************************************)
(* git_commit.py main                                                      *)
(***************************************************************************)

\* the log of the git commands the process has run, with what it adds
Logged(cmd, ok) == Append(gc.log, [cmd |-> cmd, ok |-> ok])

\* execute_system_command(cmd, critical=True) with the outcome ok: the
\* command is logged and changes the repository to effect when it succeeds;
\* the process terminates with status 1 when it fails, else goes on at next
RunCritical(cmd, ok, effect, next) ==
    /\ gc' = [gc EXCEPT !.log = Logged(cmd, ok),
                        !.pc = IF execute_system_command_exits(ok, TRUE) THEN "exit" ELSE next,
                        !.exit = IF execute_system_command_exits(ok, TRUE) THEN 1 ELSE @]
    /\ repo' = IF ok THEN effect ELSE repo

\* the operator starts git_commit.py from the shell
GitStart ==
    /\ Idle
    /\ runs < MaxRuns /\ runs < MaxGitRuns
    /\ gc' = [GcOff EXCEPT !.pc = "step1"]
    /\ runs' = runs + 1
    /\ sv' = SvOff
    /\ hc' = HcOff
    /\ UNCHANGED <<now, chats_dir, files, patterns_file, uuids, repo, memories, mv, vm, dc>>

\* STEP 1: auto-extract the conversation context
GitStep1 ==
    /\ gc.pc = "step1"
    /\ \E status \in {None} \cup {Some(out) : out \in GitStatusOutputs} :
          gc' = [gc EXCEPT !.pc = "step2", !.live_context = extract_live_context(now, status)]
    /\ UNCHANGED <<now, chats_dir, files, patterns_file, uuids, runs, sv, hc, repo, memories, mv, vm, dc>>

\* STEP 2, save_current_conversation_first: save_chat.py is started as a
\* sub-process with the context as its argument, unless the script is missing
GitStep2 ==
    /\ gc.pc = "step2"
    /\ \E script_exists \in BOOLEAN :
          IF ~script_exists
          THEN /\ gc' = [gc EXCEPT !.pc = "exit", !.exit = 1]
               /\ UNCHANGED sv
          ELSE /\ gc' = [gc EXCEPT !.pc = "wait"]
               /\ sv' = [SvOff EXCEPT !.pc = "step1", !.parent = "git_commit",
                                      !.argv = <<gc.live_context>>]
    /\ UNCHANGED <<now, chats_dir, files, patterns_file, uuids, runs, hc, repo, memories, mv, vm, dc>>

\* STEP 2, the sub-process has terminated: subprocess.run(check=True)
GitStep2Done ==
    /\ gc.pc = "wait"
    /\ sv.pc = "exit"
    /\ gc' = [gc EXCEPT !.save_status = sv.exit,
                        !.pc = IF save_failed(sv.exit) THEN "exit" ELSE "step3",
                        !.exit = IF save_failed(sv.exit) THEN 1 ELSE @]
    /\ UNCHANGED <<now, chats_dir, files, patterns_file, uuids, runs, sv, hc, repo, memories, mv, vm, dc>>

\* STEP 3: analyze_repository_changes; main returns when there are no changes.
\* STEP 4, auto_confirm_backup_strategy, only reports.
GitStep3 ==
    /\ gc.pc = "step3"
    /\ \E ok \in BOOLEAN, out \in GitStatusOutputs, diff \in GitDiffResults :
          IF execute_system_command_exits(ok, TRUE)
          THEN gc' = [gc EXCEPT !.log = Logged("git status --porcelain", ok),
                                !.pc = "exit", !.exit = 1]
          ELSE IF analyze_repository_changes(out, diff) = "none"
          THEN gc' = [gc EXCEPT !.log = Logged("git status --porcelain", ok),
                                !.backup_level = "none",
                                !.pc = "exit", !.exit = 0]
          ELSE gc' = [gc EXCEPT !.log = Logged("git status --porcelain", ok)
                                        \o <<[cmd |-> "git diff --numstat HEAD", ok |-> diff # None]>>,
                                !.backup_level = analyze_repository_changes(out, diff),
                                !.pc = "step5"]
    /\ UNCHANGED <<now, chats_dir, files, patterns_file, uuids, runs, sv, hc, repo, memories, mv, vm, dc>>

\* STEP 5, create_tiered_backup_branch: git checkout -b <branch>, which fails
\* when the branch exists
GitStep5Create ==
    /\ gc.pc = "step5"
    /\ With(backup_branch_name(gc.backup_level, now), LAMBDA branch_name :
          \E ok \in (IF branch_name \in repo.local THEN {FALSE} ELSE BOOLEAN) :
             /\ gc' = [gc EXCEPT !.log = Logged("git checkout -b " \o branch_name, ok),
                                 !.backup_branch = branch_name,
                                 !.pc = IF execute_system_command_exits(ok, TRUE)
                                        THEN "exit" ELSE "step5push",
                                 !.exit = IF execute_system_command_exits(ok, TRUE) THEN 1 ELSE @]
             /\ repo' = IF ok THEN [repo EXCEPT !.head = branch_name,
                                                !.local = @ \cup {branch_name}]
                        ELSE repo)
    /\ UNCHANGED <<now, chats_dir, files, patterns_file, uuids, runs, sv, hc, memories, mv, vm, dc>>

\* STEP 5: git push origin <branch>
GitStep5Push ==
    /\ gc.pc = "step5push"
    /\ \E ok \in BOOLEAN :
          RunCritical("git push origin " \o gc.backup_branch, ok,
                      [repo EXCEPT !.remote = @ \cup {gc.backup_branch}], "step5return")
    /\ UNCHANGED <<now, chats_dir, files, patterns_file, uuids, runs, sv, hc, memories, mv, vm, dc>>

\* STEP 5: git checkout main
GitStep5Return ==
    /\ gc.pc = "step5return"
    /\ \E ok \in BOOLEAN :
          RunCritical("git checkout main", ok, [repo EXCEPT !.head = "main"], "step7")
    /\ UNCHANGED <<now, chats_dir, files, patterns_file, uuids, runs, sv, hc, memories, mv, vm, dc>>

\* STEP 6 builds the commit message.  STEP 7, execute_protected_git_commit:
\* git add -A
GitStep7Add ==
    /\ gc.pc = "step7"
    /\ \E ok \in BOOLEAN :
          RunCritical("git add -A", ok, [repo EXCEPT !.staged = TRUE], "step7commit")
    /\ UNCHANGED <<now, chats_dir, files, patterns_file, uuids, runs, sv, hc, memories, mv, vm, dc>>

\* STEP 7: git commit -m <message>
GitStep7Commit ==
    /\ gc.pc = "step7commit"
    /\ \E ok \in BOOLEAN :
          RunCritical("git commit -m", ok,
                      [repo EXCEPT !.staged = FALSE, !.commits = @ + 1], "step7hash")
    /\ UNCHANGED <<now, chats_dir, files, patterns_file, uuids, runs, sv, hc, memories, mv, vm, dc>>

\* STEP 7: git rev-parse HEAD
GitStep7RevParse ==
    /\ gc.pc = "step7hash"
    /\ \E ok \in BOOLEAN : RunCritical("git rev-parse HEAD", ok, repo, "step8")
    /\ UNCHANGED <<now, chats_dir, files, patterns_file, uuids, runs, sv, hc, memories, mv, vm, dc>>

\* STEP 8, push_to_remote_repository: git push origin main
GitStep8 ==
    /\ gc.pc = "step8"
    /\ \E ok \in BOOLEAN :
          RunCritical("git push origin main", ok, [repo EXCEPT !.pushed = repo.commits], "step9")
    /\ UNCHANGED <<now, chats_dir, files, patterns_file, uuids, runs, sv, hc, memories, mv, vm, dc>>

\* STEP 9, cleanup_legacy_backup_branches: git branch -r, then one
\* git push origin --delete for every legacy branch; no failure is critical.
\* Then main returns.
GitStep9 ==
    /\ gc.pc = "step9"
    /\ \E listed \in BOOLEAN :
          IF ~listed
          THEN /\ gc' = [gc EXCEPT !.log = Logged("git branch -r", FALSE),
                                   !.pc = "exit", !.exit = 0]
               /\ UNCHANGED repo
          ELSE With(cleanup_deletions(branch_listing(repo.remote)), LAMBDA legacy :
                  \E failed \in SUBSET {legacy[k] : k \in 1..Len(legacy)} :
                     /\ gc' = [gc EXCEPT
                                 !.log = Logged("git branch -r", TRUE)
                                         \o [k \in 1..Len(legacy) |->
                                               [cmd |-> "git push origin --delete " \o legacy[k],
                                                ok |-> legacy[k] \notin failed]],
                                 !.pc = "exit", !.exit = 0]
                     /\ repo' = [repo EXCEPT
                                   !.remote = @ \ ({legacy[k] : k \in 1..Len(legacy)} \ failed)])
    /\ UNCHANGED <<now, chats_dir, files, patterns_file, uuids, runs, sv, hc, memories, mv, vm, dc>>

(***************************************************************************)
(* validate_memory.py main, and the functions of memory_file_validator.py  *)
(***************************************************************************)

\* sys.exit(status), or an uncaught exception (status 1)
VmExit(status) == vm' = [vm EXCEPT !.pc = "exit", !.exit = status]

\* the operator starts validate_memory.py on the memory files at hand
MemStart ==
    /\ Idle
    /\ runs < MaxRuns /\ runs < MaxMemoryRuns
    /\ \E argv \in MemoryArguments, fs \in MemoryStores :
          /\ vm' = [VmOff EXCEPT !.pc = "step0", !.argv = argv]
          /\ memories' = fs
    /\ runs' = runs + 1
    /\ mv' = MvOff
    /\ UNCHANGED <<now, chats_dir, files, patterns_file, uuids, sv, hc, gc, repo, dc>>

\* lines 150-200: the argument, the file, and the memory of the batch before;
\* os.listdir raises when the directory does not exist
MemStep0 ==
    /\ vm.pc = "step0"
    /\ IF Len(vm.argv) < 1 THEN VmExit(1)
       ELSE IF vm.argv[1] \notin DOMAIN memories.files THEN VmExit(1)
       ELSE IF ~memories.dir THEN VmExit(1)
       ELSE vm' = [vm EXCEPT !.pc = "step1",
                             !.previous_memory = previous_memory_of(memories, vm.argv[1])]
    /\ UNCHANGED <<now, chats_dir, files, patterns_file, uuids, runs, sv, hc, gc, repo, memories, mv, dc>>

\* Step 1: format validation
MemStep1 ==
    /\ vm.pc = "step1"
    /\ With(read_file(memories, vm.argv[1]), LAMBDA content :
          IF content = None THEN VmExit(1)
          ELSE With(validate_memory_file_format(content[1]), LAMBDA format :
                  vm' = [vm EXCEPT !.pc = IF format.ok THEN "step2" ELSE "exit",
                                   !.exit = IF format.ok THEN @ ELSE 1,
                                   !.format = format]))
    /\ UNCHANGED <<now, chats_dir, files, patterns_file, uuids, runs, sv, hc, gc, repo, memories, mv, dc>>

\* Step 2: gapless history validation
MemStep2 ==
    /\ vm.pc = "step2"
    /\ IF vm.previous_memory # None /\ vm.previous_memory[1] # vm.argv[1]
       THEN With(validate_gapless_history(memories, vm.argv[1], vm.previous_memory),
                 LAMBDA history :
                    vm' = [vm EXCEPT !.pc = IF history.ok THEN "step3" ELSE "exit",
                                     !.exit = IF history.ok THEN @ ELSE 1,
                                     !.history = Some(history)])
       ELSE vm' = [vm EXCEPT !.pc = "step3"]
    /\ UNCHANGED <<now, chats_dir, files, patterns_file, uuids, runs, sv, hc, gc, repo, memories, mv, dc>>

\* Step 3 and Step 4: the size of the file, then main returns
MemStep3 ==
    /\ vm.pc = "step3"
    /\ IF Len(memories.files[vm.argv[1]][1]) < 100 THEN VmExit(1) ELSE VmExit(0)
    /\ UNCHANGED <<now, chats_dir, files, patterns_file, uuids, runs, sv, hc, gc, repo, memories, mv, dc>>

\* a process that imports memory_file_validator.py calls
\* validate_gapless_history(new_file_path, previous_file_path)
ValidatorCall ==
    /\ Idle
    /\ runs < MaxRuns /\ runs < MaxMemoryRuns
    /\ \E fs \in MemoryStores, new_file_path \in {MemoryPath("2"), "inbox/notes.txt"},
          previous_file_path \in PreviousPaths :
          /\ memories' = fs
          /\ mv' = [called |-> TRUE, new_file_path |-> new_file_path,
                    previous_file_path |-> previous_file_path,
                    result |-> validate_gapless_history(fs, new_file_path, previous_file_path)]
    /\ runs' = runs + 1
    /\ vm' = VmOff
    /\ UNCHANGED <<now, chats_dir, files, patterns_file, uuids, sv, hc, gc, repo, dc>>

(***************************************************************************)
(* data_core.py                                                            *)
(***************************************************************************)

\* data_core.py returns from main, or ends with an uncaught exception
\* (status 1)
DcExit(status) == dc' = [dc EXCEPT !.pc = "exit", !.exit = status]

\* lines 23-27 (56-60, 81-89, 113-117): subprocess.run(check=True) raises
\* CalledProcessError for a return code that is not 0, the function prints
\* the error and returns, and main returns after it: the status of the
\* front end for the return code of the sub-process
front_end_status(returncode) == 0

\* the operator starts data_core.py from the shell
CoreStart ==
    /\ Idle
    /\ runs < MaxRuns /\ runs < MaxCoreRuns
    /\ \E argv \in CoreArguments, env \in CoreEnvironments :
          dc' = [DcOff EXCEPT !.pc = "main", !.argv = argv, !.env = env]
    /\ runs' = runs + 1
    /\ UNCHANGED <<now, chats_dir, files, patterns_file, uuids, sv, hc, gc, repo, memories, mv, vm>>

\* main, lines 121-133: the command is chosen by sys.argv[1:]; the help text
\* and "Unknown command" are printed and main returns
CoreMain ==
    /\ dc.pc = "main"
    /\ IF Len(dc.argv) = 0 THEN DcExit(0)
       ELSE IF dc.argv[1] = "save" /\ Len(dc.argv) >= 2 /\ dc.argv[2] = "chat"
            THEN dc' = [dc EXCEPT !.pc = "save_chat"]
       ELSE IF Len(dc.argv) >= 2 /\ dc.argv[1] = "validate" /\ dc.argv[2] = "memory"
            THEN dc' = [dc EXCEPT !.pc = "validate_memory"]
       ELSE IF dc.argv[1] = "commit" THEN dc' = [dc EXCEPT !.pc = "git_commit"]
       ELSE IF dc.argv[1] = "health" THEN dc' = [dc EXCEPT !.pc = "health_check"]
       ELSE DcExit(0)
    /\ UNCHANGED <<now, chats_dir, files, patterns_file, uuids, runs, sv, hc, gc, repo, memories, mv, vm>>

\* save_chat, lines 11-29: save_chat.py is started without arguments, with
\* the environment and the standard input of the front end
CoreSaveChat ==
    /\ dc.pc = "save_chat"
    /\ \E script_exists \in BOOLEAN :
          IF ~script_exists
          THEN DcExit(0) /\ UNCHANGED sv
          ELSE /\ dc' = [dc EXCEPT !.pc = "wait", !.child = "save"]
               /\ sv' = [SvOff EXCEPT !.pc = "step1", !.parent = "data_core",
                                      !.env = dc.env, !.stdin = dc.stdin]
    /\ UNCHANGED <<now, chats_dir, files, patterns_file, uuids, runs, hc, gc, repo, memories, mv, vm>>

\* validate_memory, lines 31-62: sys.argv[4] raises IndexError when "--file"
\* is the last argument; validate_memory.py is started on the memory files
\* at hand
CoreValidateMemory ==
    /\ dc.pc = "validate_memory"
    /\ IF Len(dc.argv) < 3 THEN DcExit(0) /\ UNCHANGED <<memories, vm>>
       ELSE IF dc.argv[3] # "--file" THEN DcExit(0) /\ UNCHANGED <<memories, vm>>
       ELSE IF Len(dc.argv) < 4 THEN DcExit(1) /\ UNCHANGED <<memories, vm>>
       ELSE \E script_exists \in BOOLEAN :
               IF ~script_exists
               THEN DcExit(0) /\ UNCHANGED <<memories, vm>>
               ELSE /\ dc' = [dc EXCEPT !.pc = "wait", !.child = "validate"]
                    /\ \E fs \in CoreMemoryStores : memories' = fs
                    /\ vm' = [VmOff EXCEPT !.pc = "step0", !.argv = <<dc.argv[4]>>]
    /\ UNCHANGED <<now, chats_dir, files, patterns_file, uuids, runs, sv, hc, gc, repo, mv>>

\* health_check, lines 64-91: chat_health_check.py is started with the live
\* context as its argument when one is given and not empty
CoreHealthCheck ==
    /\ dc.pc = "health_check"
    /\ \E script_exists \in BOOLEAN :
          IF ~script_exists
          THEN DcExit(0) /\ UNCHANGED hc
          ELSE /\ dc' = [dc EXCEPT !.pc = "wait", !.child = "health"]
               /\ hc' = [HcOff EXCEPT !.pc = "step1",
                                      !.argv = IF Len(dc.argv) >= 2 /\ dc.argv[2] # ""
                                               THEN <<dc.argv[2]>> ELSE <<>>,
                                      !.env = dc.env, !.stdin = dc.stdin]
    /\ UNCHANGED <<now, chats_dir, files, patterns_file, uuids, runs, sv, gc, repo, memories, mv, vm>>

\* git_commit, lines 93-119: without a live context the function returns;
\* git_commit.py is started with the live context as its argument
CoreGitCommit ==
    /\ dc.pc = "git_commit"
    /\ IF Len(dc.argv) < 2 THEN DcExit(0) /\ UNCHANGED gc
       ELSE \E script_exists \in BOOLEAN :
               IF ~script_exists
               THEN DcExit(0) /\ UNCHANGED gc
               ELSE /\ dc' = [dc EXCEPT !.pc = "wait", !.child = "commit"]
                    /\ gc' = [GcOff EXCEPT !.pc = "step1"]
    /\ UNCHANGED <<now, chats_dir, files, patterns_file, uuids, runs, sv, hc, repo, memories, mv, vm>>

\* the exit status of the sub-process the front end waits for, None while it runs
child_returncode ==
    IF dc.child = "save" /\ sv.pc = "exit" THEN Some(sv.exit)
    ELSE IF dc.child = "validate" /\ vm.pc = "exit" THEN Some(vm.exit)
    ELSE IF dc.child = "health" /\ hc.pc = "exit" THEN Some(hc.exit)
    ELSE IF dc.child = "commit" /\ gc.pc = "exit" THEN Some(gc.exit)
    ELSE None

\* subprocess.run returns or raises CalledProcessError: the sub-process has
\* terminated, the function returns and main returns
CoreReturn ==
    /\ dc.pc = "wait"
    /\ child_returncode # None
    /\ dc' = [dc EXCEPT !.pc = "exit", !.child_status = child_returncode[1],
                        !.exit = front_end_status(child_returncode[1])]
    /\ UNCHANGED <<now, chats_dir, files, patterns_file, uuids, runs, sv, hc, gc, repo, memories, mv, vm>>

\* a minute passes between two runs
Tick ==
    /\ Idle
    /\ now < StartTime + MaxTicks
    /\ now' = now + 1
    /\ UNCHANGED <<chats_dir, files, patterns_file, uuids, runs, sv, hc, gc, repo, memories, mv, vm, dc>>

Init ==
    /\ now = StartTime
    /\ uuids = 0
    /\ runs = 0
    /\ sv = SvOff
    /\ hc = HcOff
    /\ gc = GcOff
    /\ \E c \in InitialConfigs :
          /\ chats_dir = c.chats_dir
          /\ files = c.files
          /\ patterns_file = c.patterns_file
          /\ repo = [head |-> "main", local |-> c.local, remote |-> c.remote,
                     staged |-> FALSE, commits |-> 0, pushed |-> 0]
    /\ memories = NoMemories
    /\ mv = MvOff
    /\ vm = VmOff
    /\ dc = DcOff

Next ==
    \/ SaveStart
    \/ SaveStep1
    \/ SaveStep2
    \/ SaveStep3
    \/ SaveStep4
    \/ SaveStep5to7
    \/ SaveStep8
    \/ SaveStep9to10
    \/ SaveStep11
    \/ SaveStep12
    \/ SaveStep13to14
    \/ HealthStart
    \/ HealthStep1
    \/ HealthStep2
    \/ HealthStep3
    \/ HealthStep4
    \/ HealthStep5
    \/ HealthStep6
    \/ HealthStep7to8
    \/ GitStart
    \/ GitStep1
    \/ GitStep2
    \/ GitStep2Done
    \/ GitStep3
    \/ GitStep5Create
    \/ GitStep5Push
    \/ GitStep5Return
    \/ GitStep7Add
    \/ GitStep7Commit
    \/ GitStep7RevParse
    \/ GitStep8
    \/ GitStep9
    \/ MemStart
    \/ MemStep0
    \/ MemStep1
    \/ MemStep2
    \/ MemStep3
    \/ ValidatorCall
    \/ CoreStart
    \/ CoreMain
    \/ CoreSaveChat
    \/ CoreValidateMemory
    \/ CoreHealthCheck
    \/ CoreGitCommit
    \/ CoreReturn
    \/ Tick

Spec == Init /\ [][Next]_vars

\* save_chat.py alone, started from the shell
SaveNext ==
    \/ SaveStart
    \/ SaveStep1
    \/ SaveStep2
    \/ SaveStep3
    \/ SaveStep4
    \/ SaveStep5to7
    \/ SaveStep8
    \/ SaveStep9to10
    \/ SaveStep11
    \/ SaveStep12
    \/ SaveStep13to14
    \/ Tick

SaveSpec == Init /\ [][SaveNext]_vars

\* chat_health_check.py alone
HealthNext ==
    \/ HealthStart
    \/ HealthStep1
    \/ HealthStep2
    \/ HealthStep3
    \/ HealthStep4
    \/ HealthStep5
    \/ HealthStep6
    \/ HealthStep7to8
    \/ Tick

HealthSpec == Init /\ [][HealthNext]_vars

\* git_commit.py alone, with the save_chat.py it starts as a sub-process
GitNext ==
    \/ GitStart
    \/ GitStep1
    \/ GitStep2
    \/ SaveStep1
    \/ SaveStep2
    \/ SaveStep3
    \/ SaveStep4
    \/ SaveStep5to7
    \/ SaveStep8
    \/ SaveStep9to10
    \/ SaveStep11
    \/ SaveStep12
    \/ SaveStep13to14
    \/ GitStep2Done
    \/ GitStep3
    \/ GitStep5Create
    \/ GitStep5Push
    \/ GitStep5Return
    \/ GitStep7Add
    \/ GitStep7Commit
    \/ GitStep7RevParse
    \/ GitStep8
    \/ GitStep9
    \/ Tick

GitSpec == Init /\ [][GitNext]_vars

\* validate_memory.py and the callers of memory_file_validator.py alone:
\* neither reads the records, the patterns or the repository
MemInit ==
    /\ Init
    /\ chats_dir = "dir" /\ files = NoFiles /\ patterns_file = RefPatterns
    /\ repo.local = {} /\ repo.remote = {}

MemNext ==
    \/ MemStart
    \/ MemStep0
    \/ MemStep1
    \/ MemStep2
    \/ MemStep3
    \/ ValidatorCall
    \/ Tick

MemSpec == MemInit /\ [][MemNext]_vars

\* data_core.py with the sub-processes it starts
FrontNext ==
    \/ CoreStart
    \/ CoreMain
    \/ CoreSaveChat
    \/ CoreValidateMemory
    \/ CoreHealthCheck
    \/ CoreGitCommit
    \/ CoreReturn
    \/ SaveStep1
    \/ SaveStep2
    \/ SaveStep3
    \/ SaveStep4
    \/ SaveStep5to7
    \/ SaveStep8
    \/ SaveStep9to10
    \/ SaveStep11
    \/ SaveStep12
    \/ SaveStep13to14
    \/ MemStep0
    \/ MemStep1
    \/ MemStep2
    \/ MemStep3
    \/ HealthStep1
    \/ HealthStep2
    \/ HealthStep3
    \/ HealthStep4
    \/ HealthStep5
    \/ HealthStep6
    \/ HealthStep7to8
    \/ GitStep1
    \/ GitStep2
    \/ GitStep2Done
    \/ GitStep3
    \/ GitStep5Create
    \/ GitStep5Push
    \/ GitStep5Return
    \/ GitStep7Add
    \/ GitStep7Commit
    \/ GitStep7RevParse
    \/ GitStep8
    \/ GitStep9
    \/ Tick

FrontSpec == Init /\ [][FrontNext]_vars

(***************************************************************************)
(* Properties of the save pipeline                                         *)
(***************************************************************************)

\* the section of a record file under the heading "## Value-Preserved Content"
value_tier_of(record) ==
    With2(Find(record, "\n## Value-Preserved Content\n", 1),
          Find(record, "\n\n## Technical Specifications\n", 1),
          LAMBDA start, stop :
             IF start = 0 \/ stop = 0 THEN None
             ELSE Some(SubSeq(record, start + Len("\n## Value-Preserved Content\n"), stop - 1)))

\* every source of the transcript that is supplied is the empty string
FullyEmptyInput ==
    /\ Len(sv.argv) > 0 => sv.argv[1] = ""
    /\ sv.env # None => sv.env[1] = ""
    /\ sv.stdin # None => sv.stdin[1] = ""

\* C1: the save reports SUCCESS and returns status 0 only if the file written
\* at step 11 was read back and equals the intended report content; when the
\* read-back differs or fails, the run ends with status 1 and no SUCCESS.
C1_SuccessOnlyAfterExactReadBack ==
    /\ (sv.success \/ sv.exit = 0) =>
          (sv.written /\ sv.verified /\ sv.saved_content = Some(sv.report_content))
    /\ (sv.pc \in {"step13", "exit"} /\ sv.written /\ sv.saved_content # Some(sv.report_content)) =>
          (sv.pc = "exit" /\ sv.exit = 1 /\ ~sv.success)

C1_Witness ==
    sv.pc = "exit" /\ sv.exit = 0 /\ sv.success /\ sv.saved_content = Some(sv.report_content)

\* C2: no save modifies or replaces a record file that is already in the
\* directory: every file present before a step is present after it with the
\* same content.
C2_AppendOnly ==
    [][\A f \in DOMAIN files : f \in DOMAIN files' /\ files'[f] = files[f]]_vars

\* C3: when the most recent record's value tier is identical to the value
\* tier of the candidate, the save is blocked: it writes no file and does not
\* succeed.
C3_DuplicateValueTierBlocked ==
    (/\ sv.latest_content # None
     /\ sv.analysis # None
     /\ value_tier_of(sv.latest_content[1]) = Some(sv.analysis[1]["Value-Preserved Content"]))
    => (~sv.written /\ sv.exit # 0)

\* C4: a save whose input is fully empty ends with status 1 and never reaches
\* the write: while it runs and after it ended, the directory is as it was.
C4_EmptyInputFailsBeforeWrite ==
    /\ [](sv.pc # "off" /\ FullyEmptyInput =>
            /\ sv.pc \in {"step1", "step2", "step3", "step4", "exit"}
            /\ ~sv.written
            /\ sv.pc = "exit" => (sv.exit = 1 /\ ~sv.success))
    /\ [][(sv'.pc # "off" /\ FullyEmptyInput') => files' = files]_vars

C4_Witness ==
    /\ sv.pc = "exit" /\ sv.exit = 1 /\ FullyEmptyInput
    /\ chats_dir = "dir" /\ patterns_file # None
    /\ sv.conversation_content = Some("")

(***************************************************************************)
(* Properties of the commit process                                        *)
(***************************************************************************)

\* the commands that create a backup branch, stage, commit or push
WritesRepository(cmd) ==
    \/ StartsWith(cmd, "git checkout -b ")
    \/ cmd = "git add -A"
    \/ cmd = "git commit -m"
    \/ StartsWith(cmd, "git push ")

\* the commands that create the backup branch and push it
CreatesBackup(cmd) ==
    StartsWith(cmd, "git checkout -b ") \/ StartsWith(cmd, "git push origin backup-")

\* C5: git_commit.py runs no branch creation, add, commit or push unless its
\* save_chat.py sub-process has ended with status 0, the record written and
\* verified; when the sub-process fails, git_commit.py ends with status 1,
\* having run no git command and made no commit.
C5_SaveBeforeAnyGitWrite ==
    /\ (\E k \in 1..Len(gc.log) : WritesRepository(gc.log[k].cmd)) =>
          /\ gc.save_status = 0
          /\ sv.parent = "git_commit" /\ sv.pc = "exit" /\ sv.exit = 0
          /\ sv.written /\ sv.verified
    /\ (gc.pc \notin {"off", "wait"} /\ sv.parent = "git_commit"
          /\ sv.pc = "exit" /\ sv.exit # 0) =>
          (gc.pc = "exit" /\ gc.exit = 1 /\ gc.log = <<>> /\ repo.commits = 0)

C5_Witness ==
    /\ gc.save_status = 0
    /\ repo.commits = 1 /\ repo.pushed = 1
    /\ \E k \in 1..Len(gc.log) : gc.log[k] = [cmd |-> "git commit -m", ok |-> TRUE]

\* C6: git add -A and git commit run only after the backup branch has been
\* created and then pushed, both with success; when creating or pushing the
\* backup branch fails, the process ends with status 1 without staging or
\* committing.
C6_BackupBeforeCommit ==
    /\ \A k \in 1..Len(gc.log) :
          gc.log[k].cmd \in {"git add -A", "git commit -m"} =>
             \E i \in 1..(k - 1), j \in 1..(k - 1) :
                /\ i < j
                /\ gc.log[i] = [cmd |-> "git checkout -b " \o gc.backup_branch, ok |-> TRUE]
                /\ gc.log[j] = [cmd |-> "git push origin " \o gc.backup_branch, ok |-> TRUE]
    /\ (\E k \in 1..Len(gc.log) : CreatesBackup(gc.log[k].cmd) /\ ~gc.log[k].ok) =>
          /\ gc.pc = "exit" /\ gc.exit = 1
          /\ \A k \in 1..Len(gc.log) : gc.log[k].cmd \notin {"git add -A", "git commit -m"}
          /\ repo.commits = 0 /\ ~repo.staged

C6_Witness ==
    /\ gc.pc = "step8"
    /\ gc.backup_branch \in repo.remote
    /\ gc.log[Len(gc.log) - 1] = [cmd |-> "git commit -m", ok |-> TRUE]

(***************************************************************************)
(* Properties of the health check                                          *)
(***************************************************************************)

\* how many of the issues start with the prefix
CountPrefix(issues, prefix) ==
    Cardinality({k \in 1..Len(issues) : StartsWith(issues[k], prefix)})

\* the health check has analysed exactly two records with timestamps, and
\* has validated their timeline
TwoStampedRecords ==
    /\ hc.pc \in {"step6", "step7", "exit"}
    /\ Len(hc.analyses) = 2
    /\ hc.analyses[1].timestamp # None /\ hc.analyses[2].timestamp # None

\* the minutes between the timestamps of the two records
GapMinutes ==
    With(hc.analyses[1].timestamp[1] - hc.analyses[2].timestamp[1],
         LAMBDA d : IF d < 0 THEN 0 - d ELSE d)

\* C7: for two records whose file names are in one order and whose encoded
\* timestamps are in the other, validate_timeline_continuity reports exactly
\* one overlap issue.
C7_OutOfOrderGivesOneOverlap ==
    (/\ TwoStampedRecords
     /\ StrLess(hc.analyses[2].filename, hc.analyses[1].filename)
     /\ hc.analyses[1].timestamp[1] < hc.analyses[2].timestamp[1])
    => CountPrefix(hc.timeline_issues, "Timeline overlap") = 1

\* C8 as stated: two record timestamps 5 hours apart give exactly one large
\* gap warning, and the report is not healthy.
C8_FiveHourGapWarns ==
    (TwoStampedRecords /\ hc.pc = "exit" /\ GapMinutes = 300)
    => (/\ CountPrefix(hc.timeline_issues, "Large gap") = 1
        /\ hc.report # None /\ ~hc.report[1].healthy)

\* C8: the threshold is the fixed LargeGapSeconds (6 hours).  Two record
\* timestamps more than 6 hours apart give exactly one issue, a large gap
\* warning, and the report is not healthy (status 1); two timestamps at most
\* 6 hours apart, 5 hours included, give no large gap warning.
C8_GapOverSixHoursWarns ==
    TwoStampedRecords =>
       IF GapMinutes * 60 > LargeGapSeconds
       THEN /\ Len(hc.timeline_issues) = 1
            /\ CountPrefix(hc.timeline_issues, "Large gap") = 1
            /\ hc.pc = "exit" => (hc.report # None /\ ~hc.report[1].healthy /\ hc.exit = 1)
       ELSE CountPrefix(hc.timeline_issues, "Large gap") = 0

C8_Witness ==
    /\ TwoStampedRecords /\ hc.pc = "exit" /\ GapMinutes = 420
    /\ hc.timeline_issues =
          <<"Large gap: 7.0 hours between chat-2025-01-01-03-00.md and chat-2025-01-01-10-00.md">>
    /\ ~hc.report[1].healthy

\* C9: the report of a non-empty list of analyses is healthy exactly when
\* every analysis is valid, there is no timeline issue and there is no
\* live-context issue; the report of an empty list is not healthy.
C9_HealthyIffAllClear ==
    /\ hc.report # None =>
          /\ Len(hc.analyses) > 0
          /\ hc.report[1].healthy =
                (/\ \A k \in 1..Len(hc.analyses) : hc.analyses[k].valid
                 /\ hc.timeline_issues = <<>>
                 /\ hc.context_issues = <<>>)
    /\ \A timeline_issues \in {<<>>, hc.timeline_issues},
          context_issues \in {<<>>, hc.context_issues} :
          ~generate_comprehensive_report(<<>>, timeline_issues, context_issues).healthy

C9_Witness ==
    /\ hc.report # None /\ hc.report[1].healthy
    /\ Len(hc.analyses) = 2
    /\ hc.live_context # None

\* C10: the health check ends with status 0 exactly when it generated a
\* healthy report; it ends with another status when an analysed record is
\* invalid, when there is a timeline issue, when the path of the records is
\* missing, no directory or unreadable, and when no record file is found.
C10_ExitZeroIffHealthy ==
    hc.pc = "exit" =>
       /\ (hc.exit = 0) = (hc.report # None /\ hc.report[1].healthy)
       /\ (\E k \in 1..Len(hc.analyses) : ~hc.analyses[k].valid) => hc.exit # 0
       /\ hc.timeline_issues # <<>> => hc.exit # 0
       /\ chats_dir # "dir" => hc.exit # 0
       /\ chat_files_of(files) = <<>> => hc.exit # 0

C10_Witness ==
    /\ hc.pc = "exit" /\ hc.exit = 0
    /\ Len(hc.analyses) = 1 /\ hc.analyses[1].valid

(***************************************************************************)
(* Properties of the sections of a record                                  *)
(***************************************************************************)

\* the section of an analysis is present, long enough after stripping, and
\* free of placeholder text
SectionInOrder(analysis, section) ==
    /\ section \in DOMAIN analysis
    /\ Len(Strip(analysis[section])) >= (IF section = "Value-Preserved Content" THEN 30 ELSE 50)
    /\ ~AnyIn(placeholders, Strip(analysis[section]))

\* C11: a step of the save writes a record only when each of the 13 required
\* sections of its analysis is present, at or above its minimum length after
\* stripping (30 for Value-Preserved Content, 50 for the others) and free of
\* placeholder text; the record written is the report of that analysis.
C11_NoRecordUnlessSectionsInOrder ==
    [][(files' # files \/ (sv'.written /\ ~sv.written)) =>
          /\ sv'.analysis # None
          /\ Len(required_sections) = 13
          /\ \A k \in 1..Len(required_sections) :
                SectionInOrder(sv'.analysis[1], required_sections[k])
          /\ \E n \in 1..uuids', t \in StartTime..now' :
                files'[sv'.filename] =
                   create_chat_report_content(sv'.analysis[1], generate_uuid(n), t)]_vars

C11_Witness ==
    /\ sv.pc = "exit" /\ sv.exit = 1 /\ ~sv.written
    /\ sv.analysis # None
    /\ Len(Strip(sv.analysis[1]["Key Insights"])) < 50
    /\ files = NoFiles

(***************************************************************************)
(* Properties of the turn parser and of the value scorer                   *)
(***************************************************************************)

\* the text of a list of turns, each turn under the marker of its speaker
restore_markers(messages) ==
    Join([k \in 1..Len(messages) |->
             (IF messages[k].speaker = "user" THEN "User: " ELSE "Assistant: ")
             \o messages[k].content], "\n")

\* a transcript of two speakers under the markers "User:" and "Assistant:":
\* its first line starts with a marker, and both markers start a line
TwoSpeakerTranscript(content) ==
    With(SplitLines(content), LAMBDA lines :
       /\ StartsWith(lines[1], "User: ") \/ StartsWith(lines[1], "Assistant: ")
       /\ \E k \in 1..Len(lines) : StartsWith(lines[k], "User: ")
       /\ \E k \in 1..Len(lines) : StartsWith(lines[k], "Assistant: "))

\* C12: for a two-speaker transcript under the canonical markers, the turns
\* parse_structured_conversation returns, written out again with the marker
\* of each turn restored, are the transcript itself.
C12_ParseThenRestoreIsIdentity ==
    (/\ sv.conversation_content # None
     /\ sv.messages # <<>>
     /\ TwoSpeakerTranscript(sv.conversation_content[1]))
    => (/\ sv.messages = parse_structured_conversation(sv.conversation_content[1])
        /\ restore_markers(sv.messages) = sv.conversation_content[1])

\* the entries of the pattern table whose word-count threshold the turn exceeds
ThresholdsExceeded(message, structural_patterns) ==
    {k \in 1..Len(structural_patterns) :
        /\ Len(structural_patterns[k]) = 3
        /\ structural_patterns[k][1] = "word_threshold"
        /\ WordCount(message.content) > structural_patterns[k][2]}

\* the structural-length spans the scorer has emitted for a turn
StructuralSpansOf(message) ==
    {j \in 1..Len(sv.high_value_sections) :
        /\ sv.high_value_sections[j].type = "long_message"
        /\ sv.high_value_sections[j].content = message.content
        /\ sv.high_value_sections[j].speaker = message.speaker}

\* the scorer has run on the transcript and has returned its spans
ScorerReturned == sv.analysis # None

\* C13: for each turn whose word count exceeds a threshold of the pattern
\* table the scorer emits exactly one structural-length span, and the
\* threshold and the base confidence of the span are those of the highest
\* threshold that the word count exceeds.
C13_HighestThresholdCounts ==
    ScorerReturned =>
       \A m \in 1..Len(sv.messages) :
          With(ThresholdsExceeded(sv.messages[m], sv.patterns[1].structural_patterns),
               LAMBDA exceeded :
                  exceeded # {} =>
                     /\ Cardinality(StructuralSpansOf(sv.messages[m])) = 1
                     /\ \A j \in StructuralSpansOf(sv.messages[m]) :
                           \E k \in exceeded :
                              /\ \A other \in exceeded :
                                    sv.patterns[1].structural_patterns[other][2]
                                       <= sv.patterns[1].structural_patterns[k][2]
                              /\ sv.high_value_sections[j].threshold
                                    = sv.patterns[1].structural_patterns[k][2]
                              /\ sv.high_value_sections[j].original_confidence
                                    = sv.patterns[1].structural_patterns[k][3])

\* C14 as stated: every span of an operator turn has its base confidence
\* plus 10, at most 100, and every span of an assistant turn has its base
\* confidence minus 15, at least 60.
C14_TenUpFifteenDownForEverySpan ==
    ScorerReturned =>
       \A j \in 1..Len(sv.high_value_sections) :
          With(sv.high_value_sections[j], LAMBDA span :
             /\ span.speaker = "user" =>
                   span.confidence = Min(100, span.original_confidence + 10)
             /\ span.speaker = "ai" =>
                   span.confidence = Max(60, span.original_confidence - 15))

\* C14: an explicit-phrase span of base confidence c has min(100, c + 10)
\* when the operator wrote it and max(60, c - 15) when the assistant wrote
\* it; a structural-length span has min(100, c + 15) when the operator wrote
\* it and max(60, c - 10) when the assistant wrote it.
C14_AdjustmentBySpeakerAndKind ==
    ScorerReturned =>
       \A j \in 1..Len(sv.high_value_sections) :
          With(sv.high_value_sections[j], LAMBDA span :
             /\ span.speaker \in {"user", "ai"}
             /\ span.type \in {"explicit_signal", "long_message"}
             /\ (span.type = "explicit_signal" /\ span.speaker = "user") =>
                   span.confidence = Min(100, span.original_confidence + 10)
             /\ (span.type = "explicit_signal" /\ span.speaker = "ai") =>
                   span.confidence = Max(60, span.original_confidence - 15)
             /\ (span.type = "long_message" /\ span.speaker = "user") =>
                   span.confidence = Min(100, span.original_confidence + 15)
             /\ (span.type = "long_message" /\ span.speaker = "ai") =>
                   span.confidence = Max(60, span.original_confidence - 10))

C14_Witness ==
    /\ ScorerReturned
    /\ \E j \in 1..Len(sv.high_value_sections) :
          /\ sv.high_value_sections[j].type = "explicit_signal"
          /\ sv.high_value_sections[j].speaker = "user"
          /\ sv.high_value_sections[j].original_confidence = 95
          /\ sv.high_value_sections[j].confidence = 100
    /\ \E j \in 1..Len(sv.high_value_sections) :
          /\ sv.high_value_sections[j].type = "explicit_signal"
          /\ sv.high_value_sections[j].speaker = "ai"
          /\ sv.high_value_sections[j].confidence = 65
    /\ \E j \in 1..Len(sv.high_value_sections) :
          /\ sv.high_value_sections[j].type = "long_message"
          /\ sv.high_value_sections[j].speaker = "user"
          /\ sv.high_value_sections[j].confidence = 80
    /\ \E j \in 1..Len(sv.high_value_sections) :
          /\ sv.high_value_sections[j].type = "long_message"
          /\ sv.high_value_sections[j].speaker = "ai"
          /\ sv.high_value_sections[j].original_confidence = 65
          /\ sv.high_value_sections[j].confidence = 60

\* how many times sub occurs in s
Occurrences(s, sub) ==
    Cardinality({i \in 1..(Len(s) - Len(sub) + 1) :
                    CharAt(s, i) = CharAt(sub, 1) /\ SubSeq(s, i, i + Len(sub) - 1) = sub})

\* the text of a span between the fences of its entry
Fenced(text) == "'''\n" \o text \o "\n'''\n"

\* the heading of the entry that shows the text: the line before its fence
HeadingOf(output, text) ==
    With(SplitLines(SubSeq(output, 1, Find(output, Fenced(text), 1) - 2)),
         LAMBDA lines : lines[Len(lines)])

\* the Value-Preserved output shows the spans merged by their text
MergedByText(spans, output) ==
    /\ Occurrences(output, " (Confidence: ") = Cardinality({spans[j].content : j \in 1..Len(spans)})
    /\ \A j \in 1..Len(spans) :
          With(SelectSeq(spans, LAMBDA span : span.content = spans[j].content),
               LAMBDA same :
                  /\ Occurrences(output, Fenced(spans[j].content)) = 1
                  /\ Contains(HeadingOf(output, spans[j].content),
                        ". " \o Join([k \in 1..Len(same) |-> same[k].signal], " + ")
                        \o " (Confidence: "
                        \o ToString(Greatest({same[k].confidence : k \in 1..Len(same)}))
                        \o "%"))

\* C15: when the Value-Preserved output is made, the spans of one text that
\* several patterns matched are one entry, under the names of all these
\* patterns joined and with the greatest of their confidences, and every
\* distinct text has an entry of its own.
C15_IdenticalTextMergedOnce ==
    [][(sv'.analysis # sv.analysis /\ sv'.analysis # None /\ sv'.high_value_sections # <<>>) =>
          MergedByText(sv'.high_value_sections, sv'.analysis[1]["Value-Preserved Content"])]_vars

C15_Witness ==
    /\ ScorerReturned
    /\ \E i \in 1..Len(sv.high_value_sections), j \in 1..Len(sv.high_value_sections) :
          /\ i < j
          /\ sv.high_value_sections[i].content = sv.high_value_sections[j].content
          /\ sv.high_value_sections[i].confidence < sv.high_value_sections[j].confidence
    /\ \E i \in 1..Len(sv.high_value_sections), j \in 1..Len(sv.high_value_sections) :
          sv.high_value_sections[i].content # sv.high_value_sections[j].content
    /\ Contains(sv.analysis[1]["Value-Preserved Content"],
                "I think this is important + important (Confidence: 100%")

\* the transcript has more than 100 words and the phrase is in a User turn
LongTranscriptWithPhrase(content, messages) ==
    /\ WordCount(content) > 100
    /\ \E m \in 1..Len(messages) :
          /\ messages[m].speaker = "user"
          /\ Contains(messages[m].content, "I think this is important")

\* C16: the save of a transcript of more than 100 words with the phrase
\* "I think this is important" in a User turn gives a record whose
\* Value-Preserved Content shows a span that holds the phrase with an
\* adjusted confidence of at least 80, and when the record is read back as
\* it was written the verification passes and the save ends with status 0.
C16_PhraseOfOperatorIsPreserved ==
    (/\ sv.pc = "exit"
     /\ sv.messages # <<>>
     /\ LongTranscriptWithPhrase(sv.conversation_content[1], sv.messages))
    => /\ sv.analysis # None
       /\ \E j \in 1..Len(sv.high_value_sections) :
             /\ Contains(sv.high_value_sections[j].content, "I think this is important")
             /\ sv.high_value_sections[j].confidence >= 80
             /\ Contains(sv.analysis[1]["Value-Preserved Content"],
                         Fenced(sv.high_value_sections[j].content))
       /\ (sv.written /\ sv.saved_content = Some(sv.report_content)) =>
             (sv.verified /\ sv.exit = 0)

\* C20: when reference/value_patterns.md is absent the save goes on with
\* get_basic_patterns, and the value detection of a transcript that passed
\* the content validation ends without a fatal error: the analysis follows.
C20_FallbackPatternsDetect ==
    (/\ patterns_file = None
     /\ sv.conversation_content # None
     /\ sv.pc \notin {"off", "step1", "step2", "step3", "step4", "step5"})
    => /\ sv.patterns = Some(get_basic_patterns)
       /\ validate_conversation_content(sv.conversation_content[1]) => sv.analysis # None

(***************************************************************************)
(* Properties of the backup retention                                      *)
(***************************************************************************)

\* the backups of a tier on the remote: the branches backup-<tier>-<stamp>
\* whose stamp is a time YYYYMMDD-HHMM, as create_tiered_backup_branch names
\* them (a branch named otherwise is no backup of the tier)
TierBackups(remote, tier) ==
    {b \in remote :
        /\ StartsWith(b, "backup-" \o tier \o "-")
        /\ strptime_branch(SubSeq(b, Len("backup-" \o tier \o "-") + 1, Len(b))) # None}

StampOf(b, tier) == strptime_branch(SubSeq(b, Len("backup-" \o tier \o "-") + 1, Len(b)))[1]

\* the cleanup has listed the branches and every deletion has succeeded
CleanupDone(log, before) ==
    /\ Len(log) > before
    /\ log[before + 1] = [cmd |-> "git branch -r", ok |-> TRUE]
    /\ \A k \in (before + 1)..Len(log) : log[k].ok

\* C17: when cleanup_legacy_backup_branches has run and every deletion has
\* succeeded, each tier has at most 5 backups left on the remote, they are
\* the newest of the tier, a tier that had at most 5 is as it was, and no
\* other branch of the remote is touched.
C17_FiveNewestBackupsKept ==
    [][(gc.pc = "step9" /\ gc'.pc = "exit" /\ CleanupDone(gc'.log, Len(gc.log))) =>
          /\ \A tier \in {"major", "standard", "minor"} :
                With2(TierBackups(repo.remote, tier), TierBackups(repo'.remote, tier),
                      LAMBDA before, after :
                         /\ after \subseteq before
                         /\ Cardinality(after) = Min(5, Cardinality(before))
                         /\ \A kept \in after, deleted \in before \ after :
                               StampOf(kept, tier) > StampOf(deleted, tier)
                         /\ Cardinality(before) <= 5 => after = before)
          /\ \A b \in repo.remote \cup repo'.remote :
                (\A tier \in {"major", "standard", "minor"} : b \notin TierBackups(repo.remote, tier))
                   => (b \in repo.remote /\ b \in repo'.remote)]_vars

C17_Witness ==
    /\ gc.pc = "exit" /\ gc.exit = 0
    /\ \E k \in 1..Len(gc.log) :
          /\ gc.log[k] = [cmd |-> "git push origin --delete backup-minor-20241225-0900", ok |-> TRUE]
          /\ CleanupDone(gc.log, Least({i \in 1..Len(gc.log) : gc.log[i].cmd = "git branch -r"}) - 1)
    /\ Cardinality(TierBackups(repo.remote, "minor")) = 5
    /\ "backup-minor-20241225-0900" \notin repo.remote
    /\ "backup-major-20241201-1200" \in repo.remote

(***************************************************************************)
(* Properties of the memory file validation                                *)
(***************************************************************************)

\* the lines of a text that are not blank, stripped, in order
NonBlankLines(content) ==
    SelectSeq(StripAll(SplitLines(content)), LAMBDA line : line # "")

\* a speaker-marker line: the marker at the start, then white space, then text
IsMarkerLine(line, marker) ==
    /\ Len(line) > Len(marker)
    /\ SubSeq(line, 1, Len(marker)) = marker
    /\ \E k \in (Len(marker) + 1)..(Len(line) - 1) :
          \A j \in (Len(marker) + 1)..k : IsSpace(CharAt(line, j))

SpeakerOf(line) ==
    IF IsMarkerLine(line, "User:") THEN "User"
    ELSE IF IsMarkerLine(line, "Assistant:") THEN "Assistant"
    ELSE "none"

\* the speakers of the marker lines of a text, in order
MarkersOf(content) ==
    SelectSeq([k \in 1..Len(NonBlankLines(content)) |-> SpeakerOf(NonBlankLines(content)[k])],
              LAMBDA speaker : speaker # "none")

WellFormedMemory(content) ==
    With2(NonBlankLines(content), MarkersOf(content), LAMBDA lines, markers :
       /\ Len(lines) >= 1
       /\ SpeakerOf(lines[1]) # "none"
       /\ \A k \in 1..(Len(markers) - 1) : markers[k] # markers[k + 1]
       /\ Len(markers) >= 2
       /\ markers[Len(markers)] = "Assistant")

\* validate_memory.py has run validate_memory_file_format on its argument
FormatChecked ==
    /\ vm.pc \in {"step2", "step3", "exit"}
    /\ Len(vm.argv) >= 1
    /\ vm.argv[1] \in DOMAIN memories.files
    /\ memories.dir
    /\ memories.files[vm.argv[1]] # None

\* C18: validate_memory_file_format accepts a memory file exactly when, over
\* its non-blank lines, the first line is a speaker-marker line, the marker
\* lines alternate between User and Assistant, the last marker is Assistant
\* and there are at least two marker lines; it rejects every other content
\* with a reason.
C18_AcceptedIffWellFormed ==
    FormatChecked =>
       /\ vm.format.ok <=> WellFormedMemory(memories.files[vm.argv[1]][1])
       /\ ~vm.format.ok => vm.format.message # ""

C18_Witness ==
    /\ FormatChecked
    /\ vm.format.ok
    /\ memories.files[vm.argv[1]][1] = "User: hi\nand more\n  Assistant:  yes  "

\* the first and the last non-blank line of a file of fs, stripped; None when
\* the file cannot be read or holds no such line
FirstLineOf(fs, path) ==
    IF path \notin DOMAIN fs.files \/ fs.files[path] = None THEN None
    ELSE With(NonBlankLines(fs.files[path][1]), LAMBDA lines :
            IF Len(lines) = 0 THEN None ELSE Some(lines[1]))

LastLineOf(fs, path) ==
    IF path \notin DOMAIN fs.files \/ fs.files[path] = None THEN None
    ELSE With(NonBlankLines(fs.files[path][1]), LAMBDA lines :
            IF Len(lines) = 0 THEN None ELSE Some(lines[Len(lines)]))

PassesFormat(fs, path) ==
    /\ path \in DOMAIN fs.files
    /\ fs.files[path] # None
    /\ validate_memory_file_format(fs.files[path][1]).ok

PreviousExists(fs, previous_file_path) ==
    previous_file_path # None /\ previous_file_path[1] \in DOMAIN fs.files

GaplessAsClaimed(fs, new_file_path, previous_file_path, result) ==
    IF PreviousExists(fs, previous_file_path)
    THEN result.ok <=>
            /\ PassesFormat(fs, new_file_path)
            /\ LastLineOf(fs, previous_file_path[1]) # None
            /\ LastLineOf(fs, previous_file_path[1]) = FirstLineOf(fs, new_file_path)
    ELSE result.ok <=> PassesFormat(fs, new_file_path)

\* C19: validate_gapless_history, given an existing previous memory file,
\* succeeds exactly when the new file passes the format validation and the
\* last non-blank line of the previous file equals the first non-blank line
\* of the new file, both stripped; without a previous file, or with one that
\* does not exist, it succeeds exactly when the new file passes the format
\* validation.
C19_GaplessIffLinesConnect ==
    /\ mv.called =>
          GaplessAsClaimed(memories, mv.new_file_path, mv.previous_file_path, mv.result)
    /\ vm.history # None =>
          GaplessAsClaimed(memories, vm.argv[1], vm.previous_memory, vm.history[1])

C19_Witness ==
    /\ mv.called
    /\ PreviousExists(memories, mv.previous_file_path)
    /\ mv.previous_file_path[1] # mv.new_file_path
    /\ mv.new_file_path \in DOMAIN memories.files
    /\ memories.files[mv.previous_file_path[1]] # memories.files[mv.new_file_path]
    /\ mv.result.ok
    /\ mv.result.message = "Gapless history validation passed"

(***************************************************************************)
(* Properties of the timeline and of the live-context check                *)
(***************************************************************************)

\* the health check has analysed the records and validated their timeline
TimelineValidated ==
    /\ hc.pc \in {"step6", "step7", "exit"}
    /\ Len(hc.analyses) > 0

\* the timestamps of the analysed records whose names parse
StampsOf(analyses) ==
    {parse_temporal_filename(analyses[k].filename)[1] :
        k \in {j \in 1..Len(analyses) : parse_temporal_filename(analyses[j].filename) # None}}

\* the pairs of timestamps that are adjacent in ascending order
AdjacentStamps(stamps) ==
    {pair \in stamps \X stamps :
        /\ pair[1] < pair[2]
        /\ ~\E between \in stamps : pair[1] < between /\ between < pair[2]}

\* the names of the analysed records that carry the timestamp
NamesAt(analyses, stamp) ==
    {analyses[k].filename :
        k \in {j \in 1..Len(analyses) : parse_temporal_filename(analyses[j].filename) = Some(stamp)}}

LiveContextChecked ==
    /\ hc.pc \in {"step7", "exit"}
    /\ hc.pc = "exit" => hc.report # None
    /\ hc.live_context # None /\ hc.live_context # Some("")
    /\ Len(hc.analyses) > 0

\* the latest timestamp of the records the live-context check looks at
LatestRecentStamp ==
    Greatest(StampsOf(IF Len(hc.analyses) > 1 THEN SubSeq(hc.analyses, 1, 2) ELSE hc.analyses))

\* C23: when a transcript in progress is given to the live-context check and
\* the timestamp of the most recent stored record is later than the current
\* time, the check gives an issue that says the timestamp is in the future.
C23_FutureRecordFlagged ==
    (/\ LiveContextChecked
     /\ StampsOf(IF Len(hc.analyses) > 1 THEN SubSeq(hc.analyses, 1, 2) ELSE hc.analyses) # {}
     /\ LatestRecentStamp > now)
    => \E j \in 1..Len(hc.context_issues) : Contains(Lower(hc.context_issues[j]), "future")

\* C28: validate_against_live_context returns its pair of a verdict and a
\* list of issues, and raises no error, for every list of analyses and every
\* live context, the lists included in which neither of the two most recent
\* analysed records has a timestamp.
C28_LiveContextCheckNeverRaises ==
    TimelineValidated =>
       ~validate_against_live_context(hc.analyses, hc.live_context, now).raised

(***************************************************************************)
(* Properties of the order of the checks of a save                         *)
(***************************************************************************)

\* a section of the analysis is shorter than its minimum length
SectionTooShort(analysis) ==
    \E k \in 1..Len(required_sections) :
       Len(Strip(analysis[required_sections[k]])) <
          (IF required_sections[k] = "Value-Preserved Content" THEN 30 ELSE 50)

\* the save has ended because the record, as it was read back, has fewer
\* characters than the minimum size of verify_file_integrity
TotalSizeRejected ==
    /\ sv.pc = "exit" /\ sv.exit = 1
    /\ sv.saved_content # None
    /\ Len(sv.saved_content[1]) < 1000

\* C22: the minimum length of every section and the minimum size of the
\* record are both checked before the record file is opened for writing: a
\* save that one of the two checks rejects has written no file.
C22_MinimumsCheckedBeforeWrite ==
    /\ (sv.analysis # None /\ SectionTooShort(sv.analysis[1])) => ~sv.written
    /\ TotalSizeRejected => ~sv.written

(***************************************************************************)
(* Properties of the explicit-signal spans                                 *)
(***************************************************************************)

\* the lines from one before line i to two after it, clipped to the text
WindowAround(lines, i) ==
    Join(SubSeq(lines, Max(1, i - 1), Min(Len(lines), i + 2)), "\n")

\* the phrase of the pattern table occurs in the line, whatever the case
OccursIn(line, phrase) == Contains(Lower(line), Lower(phrase))

\* the scorer has given an explicit-signal span for the phrase at line i
SpanEmitted(sections, lines, i, phrase) ==
    \E j \in 1..Len(sections) :
       /\ sections[j].type = "explicit_signal"
       /\ sections[j].signal = phrase
       /\ sections[j].content = WindowAround(lines, i)

SucceededAgainstPrevious(fs, previous_file_path, result) ==
    PreviousExists(fs, previous_file_path) /\ result.ok

\* the last non-blank line of the file is a speaker-marker line
EndsWithMarkerLine(fs, path) ==
    /\ LastLineOf(fs, path) # None
    /\ SpeakerOf(LastLineOf(fs, path)[1]) # "none"

\* C25: whenever validate_gapless_history succeeds against a previous file
\* that exists, the last non-blank line of the previous file is a
\* speaker-marker line; a previous file whose last message goes on over more
\* than one line is never followed by a new file that passes the check.
C25_PreviousEndsWithMarkerLine ==
    /\ (mv.called /\ SucceededAgainstPrevious(memories, mv.previous_file_path, mv.result))
          => EndsWithMarkerLine(memories, mv.previous_file_path[1])
    /\ (vm.history # None /\ SucceededAgainstPrevious(memories, vm.previous_memory, vm.history[1]))
          => EndsWithMarkerLine(memories, vm.previous_memory[1])
    /\ (mv.called /\ PreviousExists(memories, mv.previous_file_path)
           /\ ~EndsWithMarkerLine(memories, mv.previous_file_path[1]))
          => ~mv.result.ok

C25_Witness ==
    /\ vm.history # None
    /\ SucceededAgainstPrevious(memories, vm.previous_memory, vm.history[1])
    /\ vm.previous_memory = Some(MemoryPath("1"))
    /\ memories.files[MemoryPath("1")] =
          Some("note\nUser: what did we decide about the names of the records in the archive?  ")
    /\ vm.pc = "exit" /\ vm.exit = 0

(***************************************************************************)
(* Properties that relate the save to the health check                     *)
(***************************************************************************)

\* the save has written its record, verified it and reported success
SavedAndVerified ==
    /\ sv.pc = "exit" /\ sv.exit = 0
    /\ sv.written /\ sv.verified /\ sv.success
    /\ sv.filename \in DOMAIN files
    /\ files[sv.filename] = sv.report_content

\* C26: every record that the save writes and verifies is judged valid by
\* analyze_chat_file of the health check (timestamp of the name, size,
\* schema version, required headings), and the report of a store that holds
\* this record alone, with no timeline issue, is healthy.
C26_SavedRecordIsValidForHealthCheck ==
    SavedAndVerified =>
       With(analyze_chat_file(files[sv.filename], sv.filename), LAMBDA analysis :
          /\ analysis.timestamp # None
          /\ analysis.size >= 1000
          /\ analysis.sections_found >= 12
          /\ analysis.framework_compliant
          /\ analysis.valid
          /\ generate_comprehensive_report(<<analysis>>, <<>>, <<>>).healthy)

(***************************************************************************)
(* Properties of the front end                                             *)
(***************************************************************************)

\* data_core.py has ended after a sub-process that it started has ended
\* with a status that is not 0
ChildFailed ==
    /\ dc.pc = "exit"
    /\ dc.child # "none"
    /\ dc.child_status # 0

\* C27: when a sub-process that data_core.py has started (save chat,
\* validate memory, health, commit) ends with an exit status that is not 0,
\* data_core.py ends with an exit status that is not 0.
C27_FailureOfChildIsPassedOn ==
    ChildFailed => dc.exit # 0

====
